---------------------------- MODULE Spec2Model ----------------------------
(***************************************************************************)
(* matrix-filter: the main loop of main.cpp (the second, on-demand        *)
(* revision, src/unnamed/part_007 lines 256-742) as a state machine.       *)
(*                                                                         *)
(* One step of the model is one whole piece of main(): Setup is            *)
(* everything before the loop, Tick is one iteration of `while (running)`, *)
(* Signal is the signal handler, Shutdown is the code after the loop.      *)
(* The inputs of an iteration (the clock reading, the consumer detector's  *)
(* answer, the outcome of an open attempt, the outcome of a frame read,    *)
(* the random draws) are chosen by \E from small sets.                     *)
(***************************************************************************)
EXTENDS Integers, Sequences, FiniteSets, TLC

(***************************************************************************)
(* Bounds of the model and program constants.                              *)
(***************************************************************************)
\* All times are milliseconds of the steady clock.  The model only visits
\* clock readings that are multiples of Quantum.
Quantum == 500

\* The latest clock reading a Tick of Spec may take.
MaxTime == 4000

\* Number of open attempts of a session the model remembers.
MaxLog == 4

\* Config::cameraPollInterval (config.h:24); no command-line flag changes it.
CameraPollInterval == 1000

\* Times are uint64_t: a sum wraps modulo 2^64.  The model's word is
\* narrower (TLC's integers are), and wide enough that no sum of a
\* configuration of Spec, SpecLive or SpecScenario wraps; U64Max stands for
\* UINT64_MAX, the largest duration parseTime can return.
U64Modulus == 8192

U64Max == U64Modulus - 1

\* The sentinel parseArgs stores in startDelay for "use a random interval":
\* UINT64_MAX (line 404), which is also a value --start-delay can give.
StartDelayRandom == U64Max

\* a + b in uint64_t
AddU64(a, b) == (a + b) % U64Modulus

\* cycleCount is an int.  IntLimit stands for 2^31: it is above every
\* cycle budget of the configurations, and above every count a bounded run
\* reaches.  cycleCount++ at INT_MAX is a signed overflow; the builds (gcc
\* and clang, a plain add on the register) leave INT_MIN, and nothing reads
\* the value when no budget is set.
IntLimit == 3

\* cycleCount++
IncInt(c) == IF c + 1 >= IntLimit THEN -IntLimit ELSE c + 1

\* The times by which the clock may advance between two iterations.  The
\* loop waits at least 1 ms (waitKey) so the clock always advances.
Steps == {Quantum, 2 * Quantum}

(***************************************************************************)
(* parseArgs, for the flags that decide when the first effect starts.  A   *)
(* command line is the sequence of these flags in the order given;         *)
(* --start-delay carries the value parseTime returned for its argument.    *)
(***************************************************************************)
FlagTest == [opt |-> "test", ms |-> 0]

FlagStartDelay(ms) == [opt |-> "start-delay", ms |-> ms]

\* One turn of the getopt loop: case 'D' (lines 365-368), case 't' (372-376).
CaseFlag(c, f) ==
    CASE f.opt = "start-delay" -> [c EXCEPT !.startDelay = f.ms,
                                            !.startDelaySet = TRUE]
      [] f.opt = "test"        -> [c EXCEPT !.testMode = TRUE,
                                            !.startDelay = 0,
                                            !.startDelaySet = TRUE]

RECURSIVE ParseFlags(_, _)
ParseFlags(c, argv) ==
    IF argv = << >> THEN c
    ELSE ParseFlags(CaseFlag(c, Head(argv)), Tail(argv))

\* testMode and startDelay as parseArgs returns them: the defaults of
\* Config (config.h lines 19-20), the flags in order, then the sentinel if
\* no flag set the start delay (lines 402-405).
parseArgs(argv) ==
    LET c == ParseFlags([testMode |-> FALSE, startDelay |-> 0,
                         startDelaySet |-> FALSE], argv)
    IN  [ testMode   |-> c.testMode,
          startDelay |-> IF c.startDelaySet THEN c.startDelay
                         ELSE StartDelayRandom ]

\* The shortest command line that gives a configuration its timing.
CommandLineOf(c) ==
    IF c.testMode THEN << FlagTest >>
    ELSE IF c.startDelay = StartDelayRandom THEN << >>
    ELSE << FlagStartDelay(c.startDelay) >>

(***************************************************************************)
(* Configurations parseArgs can return (after its validation block):       *)
(* 1 <= minInterval <= maxInterval, both durations >= 10; --test sets      *)
(* startDelay = 0 and marks it set, so testMode never comes with the       *)
(* sentinel.                                                               *)
(***************************************************************************)
Timings ==
    { [testMode |-> FALSE, startDelay |-> StartDelayRandom],
      [testMode |-> FALSE, startDelay |-> 2 * Quantum],
      [testMode |-> TRUE,  startDelay |-> 0] }

Configs ==
    { c \in [ onDemand       : BOOLEAN,
              testMode       : BOOLEAN,
              startDelay     : {StartDelayRandom, 0, 2 * Quantum},
              cycles         : {0, 2},
              minInterval    : {Quantum},
              maxInterval    : {2 * Quantum},
              staticDuration : {Quantum},
              effectDuration : {Quantum} ] :
        /\ [testMode |-> c.testMode, startDelay |-> c.startDelay] \in Timings
        /\ 1 <= c.minInterval /\ c.minInterval <= c.maxInterval }

VARIABLES
    cfg,                    \* Config config (constant after parseArgs)
    pc,                     \* "start" | "loop" | "done"
    exitCode,               \* -1 while running, else main's return value
    running,                \* static volatile bool running
    clock,                  \* last reading of getCurrentTimeMs()
    cameraOpen,             \* camera.isOpened()
    outputOpen,             \* the VirtualOutput holds its device
    cameraState,            \* CameraState cameraState
    lastCameraPollTime,
    hadConsumers,
    effectState,            \* EffectState effectState
    nextEffectTime,
    stateStartTime,
    effectTimerInitialized,
    cycleCount,
    effectsFinished,
    video,                  \* the frame sizes held by main and its objects
    env,                    \* what the process is given: the timing flags of the
                            \* command line (argv) and the frame sizes its
                            \* devices may settle on (constant)
    detector,               \* the ConsumerDetector's host and the answers of its
                            \* two public functions, for the runs that ask them
    durations,              \* the strings and values handed to and returned by
                            \* parseTime and formatTime, for the runs that call
                            \* them on their own
    options,                \* the command line handed to parseArgs and what it
                            \* returned, for the runs that call it on their own
    capture,                \* the modes of a capture device and what
                            \* CameraCapture made of them, for the runs that
                            \* call it on their own
    \* ---- history variables (observations, never read by the program) ----
    opens,                  \* the session's open attempts up to its first
                            \* success (at most MaxLog of them)
    openedNoConsumer,       \* the capture device was opened with no consumer present
    pollRef,                \* while Unavailable: time of the last open attempt
                            \* or of the entry to Unavailable (else 0)
    timerSetSinceActive,    \* nextEffectTime was computed since the last entry to Active
    sessionArmed,           \* the effect timer was armed since the last consumer connect
    tick                    \* what the last iteration did

loopVars == << cfg, pc, exitCode, running, clock, cameraOpen, outputOpen,
           cameraState, lastCameraPollTime, hadConsumers, effectState,
           nextEffectTime, stateStartTime, effectTimerInitialized,
           cycleCount, effectsFinished, video, env, opens, openedNoConsumer,
           pollRef, timerSetSinceActive, sessionArmed, tick >>

\* The variables of the units that are run apart from the main loop.
apart == << detector, durations, options, capture >>

vars == << loopVars, apart >>

CameraStates == {"IDLE", "CONNECTING", "ACTIVE", "UNAVAILABLE"}
EffectStates == {"PASSTHROUGH", "STATIC", "MATRIX"}

\* Outcomes of tryOpenCamera: the device opened; open() ran and failed (it
\* closes the handle first); detectCamera() found no device (handle untouched).
OpenOutcomes == {"opened", "openFailed", "notDetected"}

\* Frame sizes are pairs << width, height >>; NoSize is the size of an empty
\* frame and of an output that was never opened.
NoSize == << 0, 0 >>

\* The default size of the virtual camera for Resolution::HIGH, the default
\* preference (lines 457-460).
DefaultSize == << 1920, 1080 >>

\* What an iteration did: the presence edge it saw, the camera and effect
\* states it started with, the camera state the switch ran on, the open
\* attempt it made and the time waited for it, the frame read, whether it
\* armed the effect timer or began a Transition, the frame it wrote; on an
\* iteration that saw a disconnect, whether a frame read would have failed
\* (lost); whether it asked the consumer
\* detector (queried) and the value of hasConsumers it went by (present);
\* the calls it made on staticEffect, in order (calls).
\* Until the first iteration the record holds what the setup did:
\* how its camera open or probe ended (probe) and how its output open ended
\* (output), "none" for a step not reached.
NoTick == [ edge |-> "none", camStart |-> "IDLE", camMid |-> "IDLE",
            effStart |-> "PASSTHROUGH", open |-> "none", gap |-> -1,
            capture |-> "none", armed |-> FALSE, began |-> FALSE,
            frame |-> "none", lost |-> FALSE,
            probe |-> "none", output |-> "none",
            queried |-> FALSE, present |-> FALSE, calls |-> << >> ]

\* The loop's locals and the history variables as one record, so that the
\* pieces of an iteration can be written as functions from state to state.
Cur ==
    [ cameraOpen |-> cameraOpen, cameraState |-> cameraState,
      lastCameraPollTime |-> lastCameraPollTime, hadConsumers |-> hadConsumers,
      effectState |-> effectState, nextEffectTime |-> nextEffectTime,
      stateStartTime |-> stateStartTime,
      effectTimerInitialized |-> effectTimerInitialized,
      cycleCount |-> cycleCount, effectsFinished |-> effectsFinished,
      video |-> video,
      opens |-> opens, openedNoConsumer |-> openedNoConsumer,
      pollRef |-> pollRef, timerSetSinceActive |-> timerSetSinceActive,
      sessionArmed |-> sessionArmed, tick |-> tick ]

Set(s) ==
    /\ cameraOpen' = s.cameraOpen
    /\ cameraState' = s.cameraState
    /\ lastCameraPollTime' = s.lastCameraPollTime
    /\ hadConsumers' = s.hadConsumers
    /\ effectState' = s.effectState
    /\ nextEffectTime' = s.nextEffectTime
    /\ stateStartTime' = s.stateStartTime
    /\ effectTimerInitialized' = s.effectTimerInitialized
    /\ cycleCount' = s.cycleCount
    /\ effectsFinished' = s.effectsFinished
    /\ video' = s.video
    /\ opens' = s.opens
    /\ openedNoConsumer' = s.openedNoConsumer
    /\ pollRef' = s.pollRef
    /\ timerSetSinceActive' = s.timerSetSinceActive
    /\ sessionArmed' = s.sessionArmed
    /\ tick' = s.tick

(***************************************************************************)
(* randomIntervalMs: the values the uniform draw from [minMs, maxMs] can   *)
(* return, sampled at the multiples of Quantum and at both bounds.         *)
(***************************************************************************)
randomIntervalMs(minMs, maxMs) ==
    { x \in minMs..maxMs : x = minMs \/ x = maxMs \/ x % Quantum = 0 }

(***************************************************************************)
(* CameraCapture::close / the handle after tryOpenCamera.                  *)
(***************************************************************************)
cameraClose(s) == [s EXCEPT !.cameraOpen = FALSE]

\* tryOpenCamera(camera, config, width, height): the handle afterwards, and
\* on success the size the capture device settled on in width and height.
tryOpenCamera(s, outcome, size) ==
    CASE outcome = "opened"      -> [s EXCEPT !.cameraOpen = TRUE,
                                              !.video.local = size]
      [] outcome = "openFailed"  -> [s EXCEPT !.cameraOpen = FALSE]
      [] outcome = "notDetected" -> s

\* History: an open attempt made at time now in state `at`, leaving the
\* camera state `to`, with a consumer present or not.
NoteOpen(s, at, to, now, outcome, present) ==
    [s EXCEPT
       !.opens = IF Len(@) < MaxLog /\ \A i \in 1..Len(@) : ~@[i].ok
                 THEN Append(@, [at |-> at, ok |-> outcome = "opened", to |-> to])
                 ELSE @,
       !.openedNoConsumer = @ \/ (outcome = "opened" /\ ~present),
       !.tick.gap = IF at = "UNAVAILABLE" THEN now - s.pollRef ELSE @,
       !.pollRef = IF to = "UNAVAILABLE" THEN now ELSE 0,
       !.timerSetSinceActive = IF to = "ACTIVE" THEN FALSE ELSE @,
       !.tick.open = IF outcome = "opened" THEN "opened" ELSE "failed"]

(***************************************************************************)
(* The consumer edge handling of on-demand mode (lines 556-576).           *)
(***************************************************************************)
\* hasConsumers && !hadConsumers
OnConsumerConnect(s, now) ==
    [s EXCEPT !.cameraState = "CONNECTING",
              !.opens = << >>,
              !.sessionArmed = FALSE,
              !.tick.edge = "connect"]

\* Mutant: the disconnect branch without `effectTimerInitialized = false`.
OnConsumerDisconnect_KeepsTimer(s) ==
    [(IF s.cameraOpen THEN cameraClose(s) ELSE s) EXCEPT
              !.cameraState = "IDLE",
              !.effectState = "PASSTHROUGH",
              !.pollRef = 0,
              !.tick.calls = Append(@, "resetForIdle"),
              !.tick.edge = "disconnect"]

\* Mutant: the disconnect branch without camera.close().
OnConsumerDisconnect_KeepsHandle(s) ==
    [s EXCEPT !.cameraState = "IDLE",
              !.effectTimerInitialized = FALSE,
              !.effectState = "PASSTHROUGH",
              !.pollRef = 0,
              !.tick.calls = Append(@, "resetForIdle"),
              !.tick.edge = "disconnect"]

\* Mutant: the disconnect branch without staticEffect.resetForIdle().
OnConsumerDisconnect_NoReset(s) ==
    [(IF s.cameraOpen THEN cameraClose(s) ELSE s) EXCEPT
              !.cameraState = "IDLE",
              !.effectTimerInitialized = FALSE,
              !.effectState = "PASSTHROUGH",
              !.pollRef = 0,
              !.tick.edge = "disconnect"]

\* !hasConsumers && hadConsumers
OnConsumerDisconnect(s) ==
    [(IF s.cameraOpen THEN cameraClose(s) ELSE s) EXCEPT
              !.cameraState = "IDLE",
              !.effectTimerInitialized = FALSE,
              !.effectState = "PASSTHROUGH",
              !.pollRef = 0,
              !.tick.calls = Append(@, "resetForIdle"),
              !.tick.edge = "disconnect"]

ConsumerEdge(s, now, hasConsumers) ==
    LET e == IF hasConsumers /\ ~s.hadConsumers THEN OnConsumerConnect(s, now)
             ELSE IF ~hasConsumers /\ s.hadConsumers THEN OnConsumerDisconnect(s)
             ELSE s
    IN  [e EXCEPT !.hadConsumers = hasConsumers]

(***************************************************************************)
(* case CameraState::IDLE (lines 580-583).                                 *)
(***************************************************************************)
\* Mutant: the Idle case writing no frame.
CaseIdle_NoFrame(s) == s

CaseIdle(s) == [s EXCEPT !.tick.frame = "filler",
                         !.tick.calls = Append(@, "generate")]

(***************************************************************************)
(* case CameraState::CONNECTING (lines 585-619).                           *)
(***************************************************************************)
CaseConnecting(s, now, hasConsumers, outcome, size) ==
    LET o == tryOpenCamera(s, outcome, size)
        c == IF outcome = "opened"
             THEN [o EXCEPT !.cameraState = "ACTIVE",
                            !.video.effects =
                                IF o.video.local # o.video.output
                                THEN o.video.local ELSE @,
                            !.tick.calls =
                                IF o.video.local # o.video.output
                                THEN Append(@, "initialize") ELSE @]
             ELSE [o EXCEPT !.cameraState = "UNAVAILABLE",
                            !.lastCameraPollTime = now]
    IN  [NoteOpen(c, s.cameraState, c.cameraState, now, outcome, hasConsumers)
            EXCEPT !.tick.frame = "filler",
                   !.tick.calls = Append(@, "generate")]

(***************************************************************************)
(* case CameraState::UNAVAILABLE (lines 621-645).                          *)
(***************************************************************************)
\* Mutant: the operands of the subtraction swapped.
PollDue_Reversed(s, now) == s.lastCameraPollTime - now >= CameraPollInterval

\* Mutant: the poll made after half the interval.
PollDue_HalfInterval(s, now) ==
    2 * (now - s.lastCameraPollTime) >= CameraPollInterval

\* currentTime - lastCameraPollTime >= config.cameraPollInterval
PollDue(s, now) == now - s.lastCameraPollTime >= CameraPollInterval

CaseUnavailable(s, now, hasConsumers, outcome, size) ==
    IF PollDue(s, now)
    THEN LET o == tryOpenCamera(s, outcome, size)
             a == IF outcome = "opened"
                  THEN [o EXCEPT !.cameraState = "ACTIVE",
                                 !.video.effects = o.video.local,
                                 !.tick.calls = Append(@, "initialize")]
                  ELSE o
             c == [a EXCEPT !.lastCameraPollTime = now]
         IN  [NoteOpen(c, s.cameraState, c.cameraState, now, outcome, hasConsumers)
                 EXCEPT !.tick.frame = "filler",
                        !.tick.calls = Append(@, "generate")]
    ELSE [s EXCEPT !.tick.frame = "filler",
                   !.tick.calls = Append(@, "generate")]

(***************************************************************************)
(* case CameraState::ACTIVE (lines 647-723).                               *)
(***************************************************************************)
\* The first nextEffectTime of a session, from the arming tick's time
\* (lines 650-657); `c` holds testMode and startDelay.
FirstEffectTime(c, now, draw) ==
    IF c.testMode THEN now
    ELSE IF c.startDelay = StartDelayRandom THEN AddU64(now, draw)
    ELSE AddU64(now, c.startDelay)

\* Mutant: the timer armed on every Active iteration (no test of the flag).
ArmEffectTimer_EveryTick(s, now, draw) ==
    [s EXCEPT
        !.nextEffectTime = FirstEffectTime(cfg, now, draw),
        !.effectTimerInitialized = TRUE,
        !.timerSetSinceActive = TRUE,
        !.sessionArmed = TRUE,
        !.tick.armed = TRUE]

\* Initialize effect timer on first active frame (lines 649-663).
ArmEffectTimer(s, now, draw) ==
    IF s.effectTimerInitialized THEN s
    ELSE [s EXCEPT
            !.nextEffectTime = FirstEffectTime(cfg, now, draw),
            !.effectTimerInitialized = TRUE,
            !.timerSetSinceActive = TRUE,
            !.sessionArmed = TRUE,
            !.tick.armed = TRUE]

\* Mutant: the capture-failure branch without camera.close().
CaptureFailed_KeepsHandle(s, now) ==
    [s EXCEPT !.cameraState = "UNAVAILABLE",
              !.lastCameraPollTime = now,
              !.pollRef = now,
              !.tick.capture = "fail",
              !.tick.calls = Append(@, "generate"),
              !.tick.frame = "filler"]

\* frame.empty() after captureFrame (lines 668-676).
CaptureFailed(s, now) ==
    [cameraClose(s) EXCEPT
            !.cameraState = "UNAVAILABLE",
            !.lastCameraPollTime = now,
            !.pollRef = now,
            !.tick.capture = "fail",
            !.tick.calls = Append(@, "generate"),
            !.tick.frame = "filler"]

\* Mutant: the budget test without `config.cycles > 0`.
CycleBudgetSpent_ZeroIsBudget(count) == count >= cfg.cycles

\* Mutant: the budget test off by one (> for >=).
CycleBudgetSpent_OffByOne(count) == cfg.cycles > 0 /\ count > cfg.cycles

\* config.cycles > 0 && cycleCount >= config.cycles (line 711)
CycleBudgetSpent(count) == cfg.cycles > 0 /\ count >= cfg.cycles

\* Mutant: the duration test strict (> for >=).
Elapsed_Strict(s, now, duration) == now - s.stateStartTime > duration

\* currentTime - stateStartTime >= duration (lines 692 and 707)
Elapsed(s, now, duration) == now - s.stateStartTime >= duration

\* Mutant: the Transition ending in Passthrough, with no Substitute.
EffectStep_SkipsSubstitute(s, now, draw) ==
    CASE s.effectState = "PASSTHROUGH" ->
            IF ~s.effectsFinished /\ now >= s.nextEffectTime
            THEN [s EXCEPT !.effectState = "STATIC",
                           !.stateStartTime = now,
                           !.tick.began = TRUE,
                           !.tick.calls = Append(@, "resetForEffect"),
                           !.tick.frame = "live"]
            ELSE [s EXCEPT !.tick.frame = "live"]
      [] s.effectState \in {"STATIC", "MATRIX"} ->
            IF Elapsed(s, now, cfg.staticDuration)
            THEN LET c == [s EXCEPT !.effectState = "PASSTHROUGH",
                                    !.cycleCount = IncInt(@),
                                    !.tick.frame = "transition"]
                 IN  IF CycleBudgetSpent(c.cycleCount)
                     THEN [c EXCEPT !.effectsFinished = TRUE]
                     ELSE [c EXCEPT !.nextEffectTime = AddU64(now, draw),
                                    !.timerSetSinceActive = TRUE]
            ELSE [s EXCEPT !.tick.frame = "transition"]

\* The effect state machine (lines 679-721), run on a captured frame.
EffectStep(s, now, draw) ==
    CASE s.effectState = "PASSTHROUGH" ->
            IF ~s.effectsFinished /\ now >= s.nextEffectTime
            THEN [s EXCEPT !.effectState = "STATIC",
                           !.stateStartTime = now,
                           !.tick.began = TRUE,
                           !.tick.calls = Append(@, "resetForEffect"),
                           !.tick.frame = "live"]
            ELSE [s EXCEPT !.tick.frame = "live"]
      [] s.effectState = "STATIC" ->
            IF Elapsed(s, now, cfg.staticDuration)
            THEN [s EXCEPT !.effectState = "MATRIX",
                           !.stateStartTime = now,
                           !.tick.calls = Append(@, "generate"),
                           !.tick.frame = "transition"]
            ELSE [s EXCEPT !.tick.calls = Append(@, "generate"),
                           !.tick.frame = "transition"]
      [] s.effectState = "MATRIX" ->
            IF Elapsed(s, now, cfg.effectDuration)
            THEN LET c == [s EXCEPT !.effectState = "PASSTHROUGH",
                                    !.cycleCount = IncInt(@),
                                    !.tick.frame = "substitute"]
                 IN  IF CycleBudgetSpent(c.cycleCount)
                     THEN [c EXCEPT !.effectsFinished = TRUE]
                     ELSE [c EXCEPT !.nextEffectTime = AddU64(now, draw),
                                    !.timerSetSinceActive = TRUE]
            ELSE [s EXCEPT !.tick.frame = "substitute"]

\* Mutant: the effect state machine run before the captured frame is tested.
CaseActive_SequencerBeforeRead(s, now, frameRead, draw1, draw2) ==
    LET a == ArmEffectTimer(s, now, draw1)
        e == EffectStep(a, now, draw2)
    IN  IF ~(a.cameraOpen /\ frameRead)
        THEN CaptureFailed(e, now)
        ELSE [e EXCEPT !.tick.capture = "ok"]

\* CameraCapture::captureFrame: a frame only from an open handle.
CaseActive(s, now, frameRead, draw1, draw2) ==
    LET a == ArmEffectTimer(s, now, draw1)
    IN  IF ~(a.cameraOpen /\ frameRead)
        THEN CaptureFailed(a, now)
        ELSE EffectStep([a EXCEPT !.tick.capture = "ok"], now, draw2)

\* switch (cameraState) (lines 579-724)
HandleCameraState(s, now, hasConsumers, outcome, size, frameRead, draw1, draw2) ==
    CASE s.cameraState = "IDLE"        -> CaseIdle(s)
      [] s.cameraState = "CONNECTING"  -> CaseConnecting(s, now, hasConsumers, outcome, size)
      [] s.cameraState = "UNAVAILABLE" -> CaseUnavailable(s, now, hasConsumers, outcome, size)
      [] s.cameraState = "ACTIVE"      -> CaseActive(s, now, frameRead, draw1, draw2)

(***************************************************************************)
(* One iteration of the main loop (lines 550-735).                         *)
(***************************************************************************)
\* Mutant: the switch on the camera state run before the consumer check.
Iteration_LifecycleFirst(s, now, hasConsumers, outcome, size, frameRead, draw1, draw2) ==
    LET s1 == HandleCameraState([s EXCEPT !.tick.camMid = s.cameraState], now,
                                hasConsumers, outcome, size, frameRead, draw1, draw2)
        s2 == IF cfg.onDemand THEN ConsumerEdge(s1, now, hasConsumers) ELSE s1
    IN  IF s2.tick.edge = "disconnect"
        THEN [s2 EXCEPT !.tick.lost = ~frameRead] ELSE s2

\* The body of the loop up to the frame written: the consumer check of
\* on-demand mode (lines 555-576), then the switch (lines 579-724), whose
\* ACTIVE case holds the effect state machine.
Iteration(s, now, hasConsumers, outcome, size, frameRead, draw1, draw2) ==
    LET s1 == IF cfg.onDemand THEN ConsumerEdge(s, now, hasConsumers) ELSE s
        s2 == [s1 EXCEPT !.tick.camMid = s1.cameraState,
                         !.tick.lost = (s1.tick.edge = "disconnect" /\ ~frameRead),
                         !.tick.queried = cfg.onDemand,
                         !.tick.present = hasConsumers]
    IN  HandleCameraState(s2, now, hasConsumers, outcome, size, frameRead, draw1, draw2)

\* The size of the last iteration's outputFrame: the filler and the
\* Transition frame come from staticEffect.generate() and the Substitute
\* frame from matrixEffect.render(), both of the size the effects were last
\* initialized with (an iteration initializes them before it generates);
\* the live frame is the captured one, of the size the capture device
\* settled on at its last open, which is what width and height hold.
FrameSize ==
    CASE tick.frame \in {"filler", "transition", "substitute"} -> video.effects
      [] tick.frame = "live" -> video.local
      [] OTHER -> NoSize

\* Mutant: the frame written at its own size, never scaled.
WriteFrame_NoResize == FrameSize

\* Lines 726-729 and VirtualOutput::writeFrame, which changes nothing in the
\* program: the size of the image the last iteration handed to the device.
\* An empty frame is not written; a frame whose size differs from
\* width_ x height_ is resized to it, and the resized image is converted and
\* written.
WriteFrame == IF FrameSize = NoSize THEN NoSize ELSE video.output

\* Mutant: the detector asked in both modes.
HasConsumers_AlwaysQueried(present) == present

\* bool hasConsumers = true, replaced by the detector's answer `present`
\* only if (config.onDemand) (lines 552-556).
HasConsumers(present) == IF cfg.onDemand THEN present ELSE TRUE

\* An iteration whose clock reading is `dt` past the last one, for dt in
\* `steps`, and at most `limit`.
TickWith(steps, limit) ==
    /\ pc = "loop"
    /\ running
    /\ \E dt \in steps, present \in BOOLEAN, outcome \in OpenOutcomes,
          size \in env.camera, frameRead \in BOOLEAN,
          draw1 \in randomIntervalMs(cfg.minInterval, cfg.maxInterval),
          draw2 \in randomIntervalMs(cfg.minInterval, cfg.maxInterval) :
         /\ clock + dt <= limit
         /\ LET now == clock + dt
                hasConsumers == HasConsumers(present)
                s0 == [Cur EXCEPT !.tick = [NoTick EXCEPT
                                              !.camStart = cameraState,
                                              !.effStart = effectState]]
            IN  /\ \E after \in {Iteration(s0, now, hasConsumers, outcome,
                                              size, frameRead, draw1, draw2)} :
                       Set(after)
                /\ clock' = now
    /\ UNCHANGED << cfg, pc, exitCode, running, outputOpen, env, apart >>

Tick == TickWith(Steps, MaxTime)

(***************************************************************************)
(* main() before the loop (lines 437-547): the camera is opened (not       *)
(* on-demand) or probed and closed (on-demand), the output is opened, the  *)
(* loop's locals get their initial values.  A return of 1 runs the         *)
(* destructors, which close the camera.  `present` is whether a consumer   *)
(* holds the virtual device while this runs.                               *)
(***************************************************************************)
\* The sizes after the setup.  width and height start at the default and
\* take the capture device's size when the open or probe succeeds (lines
\* 487, 493); output.open asks the driver for that size and keeps what the
\* driver settled on, `settled` when it is not NoSize, else the size asked
\* for (virtual_output.cpp lines 14-66); the effects are initialized with
\* width and height (lines 513, 516).  Nothing after a return of 1 exists.
SetupVideo(opened, noCamera, outputOk, size, settled) ==
    LET local == IF opened THEN size ELSE DefaultSize
        ok    == ~noCamera /\ outputOk
    IN  [ local   |-> local,
          output  |-> IF ~ok THEN NoSize
                      ELSE IF settled = NoSize THEN local ELSE settled,
          effects |-> IF ok THEN local ELSE NoSize ]

\* Mutant: a failed camera probe fatal in on-demand mode too.
Setup_ProbeFatal ==
    /\ pc = "start"
    /\ \E outcome \in OpenOutcomes, outputOk \in BOOLEAN, present \in BOOLEAN,
          size \in env.camera, settled \in env.output :
         LET opened == outcome = "opened"
             noCamera == ~opened
             fatal  == noCamera \/ ~outputOk
         IN  /\ pc' = IF fatal THEN "done" ELSE "loop"
             /\ exitCode' = IF fatal THEN 1 ELSE -1
             /\ cameraOpen' = (~fatal /\ ~cfg.onDemand)
             /\ outputOpen' = (~fatal)
             /\ cameraState' = IF cfg.onDemand THEN "IDLE" ELSE "ACTIVE"
             /\ openedNoConsumer' = (opened /\ ~present)
             /\ video' = SetupVideo(opened, noCamera, outputOk, size, settled)
             /\ tick' = [NoTick EXCEPT
                           !.probe = IF opened THEN "opened" ELSE "failed",
                           !.output = IF noCamera THEN "none"
                                      ELSE IF outputOk THEN "opened"
                                      ELSE "failed"]
    /\ UNCHANGED << cfg, running, clock, lastCameraPollTime, hadConsumers,
                    effectState, nextEffectTime, stateStartTime,
                    effectTimerInitialized, cycleCount, effectsFinished,
                    env, apart, opens, pollRef, timerSetSinceActive,
                    sessionArmed >>

Setup ==
    /\ pc = "start"
    /\ \E outcome \in OpenOutcomes, outputOk \in BOOLEAN, present \in BOOLEAN,
          size \in env.camera, settled \in env.output :
         LET opened == outcome = "opened"
             noCamera == ~cfg.onDemand /\ ~opened
             fatal  == noCamera \/ ~outputOk
         IN  /\ pc' = IF fatal THEN "done" ELSE "loop"
             /\ exitCode' = IF fatal THEN 1 ELSE -1
             /\ cameraOpen' = (~fatal /\ ~cfg.onDemand)
             /\ outputOpen' = (~fatal)
             /\ cameraState' = IF cfg.onDemand THEN "IDLE" ELSE "ACTIVE"
             /\ openedNoConsumer' = (opened /\ ~present)
             /\ video' = SetupVideo(opened, noCamera, outputOk, size, settled)
             /\ tick' = [NoTick EXCEPT
                           !.probe = IF opened THEN "opened" ELSE "failed",
                           !.output = IF noCamera THEN "none"
                                      ELSE IF outputOk THEN "opened"
                                      ELSE "failed"]
    /\ UNCHANGED << cfg, running, clock, lastCameraPollTime, hadConsumers,
                    effectState, nextEffectTime, stateStartTime,
                    effectTimerInitialized, cycleCount, effectsFinished,
                    env, apart, opens, pollRef, timerSetSinceActive,
                    sessionArmed >>

\* signalHandler (lines 273-275)
Signal ==
    /\ pc \in {"start", "loop"}
    /\ running
    /\ running' = FALSE
    /\ UNCHANGED << cfg, pc, exitCode, clock, cameraOpen, outputOpen,
                    cameraState, lastCameraPollTime, hadConsumers, effectState,
                    nextEffectTime, stateStartTime, effectTimerInitialized,
                    cycleCount, effectsFinished, video, env, apart, opens,
                    openedNoConsumer, pollRef, timerSetSinceActive,
                    sessionArmed, tick >>

\* Mutant: the shutdown without camera.close().
Shutdown_KeepsCamera ==
    /\ pc = "loop"
    /\ ~running
    /\ outputOpen' = FALSE
    /\ pc' = "done"
    /\ exitCode' = 0
    /\ UNCHANGED << cfg, running, clock, cameraOpen, cameraState,
                    lastCameraPollTime, hadConsumers, effectState,
                    nextEffectTime, stateStartTime, effectTimerInitialized,
                    cycleCount, effectsFinished, video, env, apart, opens,
                    openedNoConsumer, pollRef, timerSetSinceActive,
                    sessionArmed, tick >>

\* The loop condition found false, then lines 737-741.
Shutdown ==
    /\ pc = "loop"
    /\ ~running
    /\ cameraOpen' = FALSE
    /\ outputOpen' = FALSE
    /\ pc' = "done"
    /\ exitCode' = 0
    /\ UNCHANGED << cfg, running, clock, cameraState, lastCameraPollTime,
                    hadConsumers, effectState, nextEffectTime, stateStartTime,
                    effectTimerInitialized, cycleCount, effectsFinished,
                    video, env, apart, opens, openedNoConsumer, pollRef,
                    timerSetSinceActive, sessionArmed, tick >>

(***************************************************************************)
(* ConsumerDetector (consumer_detector.h, src/unnamed/part_005), as        *)
(* functions of the host: the three counter files of checkSysfs in the     *)
(* order tried, each opened or not and holding a value; whether /proc can  *)
(* be opened; the entries of /proc in readdir order.  An entry is a        *)
(* process (a directory with a numeric name), with its pid, whether its fd *)
(* directory can be opened and the targets of its descriptors in readdir   *)
(* order, or something else.  Each function returns its value together     *)
(* with what it touched: whether it opened /proc and the pids whose fd     *)
(* directory it read.                                                      *)
(***************************************************************************)
\* getpid()
OurPid == 1

\* devicePath_ (Config::outputDevice by default) and another target.
DevicePath == "/dev/video2"

OtherPath == "/dev/null"

\* checkSysfs: the value of the first counter file that opens, else -1.
checkSysfs(h) ==
    LET open == {i \in 1..Len(h.sysfs) : h.sysfs[i].open}
    IN  IF open = {} THEN -1
        ELSE h.sysfs[CHOOSE i \in open : \A j \in open : i <= j].value

\* An entry the scan passes over: not a directory with a numeric name, our
\* own process, or a process whose fd directory cannot be opened.
Skipped(e) == e.kind # "process" \/ e.pid = OurPid \/ ~e.readable

\* Some descriptor's link target is the device path.
HoldsDevice(e) == \E k \in 1..Len(e.fds) : e.fds[k] = DevicePath

\* The readdir loop of checkProcFd from entry i on: true at the first match.
RECURSIVE ScanAny(_, _, _)
ScanAny(table, i, read) ==
    IF i > Len(table) THEN [value |-> FALSE, proc |-> TRUE, read |-> read]
    ELSE IF Skipped(table[i]) THEN ScanAny(table, i + 1, read)
    ELSE IF HoldsDevice(table[i])
         THEN [value |-> TRUE, proc |-> TRUE, read |-> Append(read, table[i].pid)]
         ELSE ScanAny(table, i + 1, Append(read, table[i].pid))

checkProcFd(h) ==
    IF ~h.procOpen THEN [value |-> FALSE, proc |-> TRUE, read |-> << >>]
    ELSE ScanAny(h.table, 1, << >>)

\* Mutant: every matching descriptor counted (no break).
RECURSIVE ScanCount_EveryDescriptor(_, _, _, _)
ScanCount_EveryDescriptor(table, i, count, read) ==
    IF i > Len(table) THEN [value |-> count, proc |-> TRUE, read |-> read]
    ELSE IF Skipped(table[i]) THEN ScanCount_EveryDescriptor(table, i + 1, count, read)
    ELSE ScanCount_EveryDescriptor(table, i + 1,
                   count + Cardinality({k \in 1..Len(table[i].fds) :
                                          table[i].fds[k] = DevicePath}),
                   Append(read, table[i].pid))

\* Mutant: the scan given up at the first fd directory that cannot be opened.
RECURSIVE ScanCount_StopsAtUnreadable(_, _, _, _)
ScanCount_StopsAtUnreadable(table, i, count, read) ==
    IF i > Len(table) THEN [value |-> count, proc |-> TRUE, read |-> read]
    ELSE IF table[i].kind = "process" /\ table[i].pid # OurPid /\ ~table[i].readable
         THEN [value |-> count, proc |-> TRUE, read |-> read]
    ELSE IF Skipped(table[i]) THEN ScanCount_StopsAtUnreadable(table, i + 1, count, read)
    ELSE ScanCount_StopsAtUnreadable(table, i + 1,
                   IF HoldsDevice(table[i]) THEN count + 1 ELSE count,
                   Append(read, table[i].pid))

\* The readdir loop of countProcFdConsumers from entry i on.
RECURSIVE ScanCount(_, _, _, _)
ScanCount(table, i, count, read) ==
    IF i > Len(table) THEN [value |-> count, proc |-> TRUE, read |-> read]
    ELSE IF Skipped(table[i]) THEN ScanCount(table, i + 1, count, read)
    ELSE ScanCount(table, i + 1,
                   IF HoldsDevice(table[i]) THEN count + 1 ELSE count,
                   Append(read, table[i].pid))

countProcFdConsumers(h) ==
    IF ~h.procOpen THEN [value |-> 0, proc |-> TRUE, read |-> << >>]
    ELSE ScanCount(h.table, 1, 0, << >>)

\* Mutant: the writer's own open not subtracted.
hasConsumers_CountsWriter(h) ==
    IF checkSysfs(h) >= 0
    THEN [value |-> checkSysfs(h) > 0, proc |-> FALSE, read |-> << >>]
    ELSE checkProcFd(h)

\* ConsumerDetector::hasConsumers (lines 30-40); the name hasConsumers is
\* the loop's local.
detectorHasConsumers(h) ==
    IF checkSysfs(h) >= 0
    THEN [value |-> checkSysfs(h) > 1, proc |-> FALSE, read |-> << >>]
    ELSE checkProcFd(h)

\* ConsumerDetector::getConsumerCount (lines 43-49)
getConsumerCount(h) ==
    IF checkSysfs(h) >= 0
    THEN [value |-> IF checkSysfs(h) - 1 > 0 THEN checkSysfs(h) - 1 ELSE 0,
          proc |-> FALSE, read |-> << >>]
    ELSE countProcFdConsumers(h)

\* A function not called yet, and the detector before any call.
NotAsked(value) ==
    [asked |-> FALSE, value |-> value, proc |-> FALSE, read |-> << >>]

Asked(answer) ==
    [asked |-> TRUE, value |-> answer.value, proc |-> answer.proc,
     read |-> answer.read]

OnHost(h) == [host |-> h, has |-> NotAsked(FALSE), count |-> NotAsked(0)]

NoDetector ==
    OnHost([sysfs |-> << >>, procOpen |-> FALSE, table |-> << >>])

(***************************************************************************)
(* The process at the start of main().  The loop's locals are shown with   *)
(* the values their declarations give them (lines 526-539).                *)
(***************************************************************************)
LoopAtEntry ==
    /\ parseArgs(env.argv) = [testMode |-> cfg.testMode, startDelay |-> cfg.startDelay]
    /\ pc = "start"
    /\ exitCode = -1
    /\ running = TRUE
    /\ clock = 0
    /\ cameraOpen = FALSE
    /\ outputOpen = FALSE
    /\ cameraState = "IDLE"
    /\ lastCameraPollTime = 0
    /\ hadConsumers = FALSE
    /\ effectState = "PASSTHROUGH"
    /\ nextEffectTime = 0
    /\ stateStartTime = 0
    /\ effectTimerInitialized = FALSE
    /\ cycleCount = 0
    /\ effectsFinished = FALSE
    /\ video = [local |-> DefaultSize, output |-> NoSize, effects |-> NoSize]
    /\ opens = << >>
    /\ openedNoConsumer = FALSE
    /\ pollRef = 0
    /\ timerSetSinceActive = FALSE
    /\ sessionArmed = FALSE
    /\ tick = NoTick

\* The units run apart, before any call: no string or value handed to the
\* duration functions, no command line handed to parseArgs, no capture
\* device asked for its modes.
NoDurations == << >>

NoOptions == [argv |-> << >>, parsed |-> FALSE]

NoCapture == [asked |-> FALSE]

OthersIdle == durations = NoDurations /\ options = NoOptions /\ capture = NoCapture

\* The runs of the main loop take the detector's answers as inputs of the
\* iterations (`present`); the detector itself is modelled apart, below.
AtEntry == LoopAtEntry /\ detector = NoDetector /\ OthersIdle

\* Devices that settle on the size asked of them: the capture device on
\* the default size, the output device on whatever output.open asks for.
SameSizes == [camera |-> {DefaultSize}, output |-> {NoSize}]

\* The environment of a run: its command line and its devices.
Given(argv, devices) ==
    [argv |-> argv, camera |-> devices.camera, output |-> devices.output]

Init ==
    /\ cfg \in Configs
    /\ env = Given(CommandLineOf(cfg), SameSizes)
    /\ AtEntry

Next == Setup \/ Tick \/ Signal \/ Shutdown

Spec == Init /\ [][Next]_vars

(***************************************************************************)
(* The unbounded run, for the properties about what eventually happens.    *)
(* getCurrentTimeMs() reads a steady clock whose epoch is arbitrary, and   *)
(* the loop only ever compares a stored time with the current reading      *)
(* (now - t >= interval, now >= t).  Rebase moves the epoch forward: it    *)
(* subtracts the same amount from the clock and from every stored time,    *)
(* leaving the clock at Horizon; a stored time older than that is kept at  *)
(* the new epoch, where it still is at least Horizon old, which is at      *)
(* least every interval of the configurations, so every later comparison   *)
(* comes out the same.  The program takes no step in a Rebase.  In the     *)
(* unbounded run an iteration is preceded by a Rebase whenever the clock   *)
(* is past Horizon.                                                        *)
(***************************************************************************)
Horizon ==
    IF CameraPollInterval >= 2 * Quantum THEN CameraPollInterval ELSE 2 * Quantum

Rebased(x) == IF x - (clock - Horizon) >= 0 THEN x - (clock - Horizon) ELSE 0

Rebase ==
    /\ pc = "loop"
    /\ clock > Horizon
    /\ clock' = Horizon
    /\ lastCameraPollTime' = Rebased(lastCameraPollTime)
    /\ nextEffectTime' = Rebased(nextEffectTime)
    /\ stateStartTime' = Rebased(stateStartTime)
    /\ pollRef' = Rebased(pollRef)
    /\ UNCHANGED << cfg, pc, exitCode, running, cameraOpen, outputOpen,
                    cameraState, hadConsumers, effectState,
                    effectTimerInitialized, cycleCount, effectsFinished,
                    video, env, apart, opens, openedNoConsumer,
                    timerSetSinceActive, sessionArmed, tick >>

\* The configurations with a cycle budget: cycleCount stays bounded.
InitLive == Init /\ cfg.cycles > 0

\* An iteration of the unbounded run starts from a clock at most Horizon.
TickLive == clock <= Horizon /\ Tick

NextLive == Setup \/ TickLive \/ Rebase \/ Signal \/ Shutdown

\* The loop is single-threaded and every iteration returns (opens and reads
\* fail fast), so an iteration that can run does run, and so does the
\* shutdown once the run flag is cleared.
SpecLive ==
    /\ InitLive
    /\ [][NextLive]_vars
    /\ WF_vars(Setup) /\ WF_vars(TickLive) /\ WF_vars(Rebase) /\ WF_vars(Shutdown)

\* The unbounded run without a cycle budget (--cycles 0, the default), in
\* both modes, of the configurations with --test (the other timings differ
\* in the first arming only): the effect repeats for ever.
InitForever == Init /\ cfg.cycles = 0 /\ cfg.testMode

SpecForever ==
    /\ InitForever
    /\ [][NextLive]_vars
    /\ WF_vars(Setup) /\ WF_vars(TickLive) /\ WF_vars(Rebase) /\ WF_vars(Shutdown)

(***************************************************************************)
(* The timed runs: the clock read every ScenarioStep or every other one,   *)
(* with durations that are no multiples of Quantum.  TimedRun is the run   *)
(* of `--test --cycles 1 --static-duration 300ms --effect-duration 500ms   *)
(* --no-on-demand`; the others vary the mode, the start and the budget.    *)
(***************************************************************************)
ScenarioStep == 100

\* The latest clock reading an iteration of SpecScenario may take.
ScenarioMaxTime == 1600

ScenarioSteps == {ScenarioStep, 2 * ScenarioStep}

TimedRun ==
    [ onDemand |-> FALSE, testMode |-> TRUE, startDelay |-> 0, cycles |-> 1,
      minInterval |-> Quantum, maxInterval |-> Quantum,
      staticDuration |-> 300, effectDuration |-> 500 ]

ScenarioConfigs ==
    { TimedRun,
      [TimedRun EXCEPT !.onDemand = TRUE],
      [TimedRun EXCEPT !.testMode = FALSE, !.startDelay = 2 * ScenarioStep,
                       !.cycles = 0, !.minInterval = ScenarioStep,
                       !.maxInterval = ScenarioStep,
                       !.staticDuration = 150, !.effectDuration = 250] }

InitScenario ==
    /\ cfg \in ScenarioConfigs
    /\ env = Given(CommandLineOf(cfg), SameSizes)
    /\ AtEntry

TickScenario == TickWith(ScenarioSteps, ScenarioMaxTime)

NextScenario == Setup \/ TickScenario \/ Signal \/ Shutdown

SpecScenario == InitScenario /\ [][NextScenario]_vars

(***************************************************************************)
(* The runs of `--max-interval 18446744073709551615` (UINT64_MAX ms), in   *)
(* both modes: parseArgs accepts it (lines 353-355, 396-400), and the draw *)
(* may then return any value up to UINT64_MAX.  minInterval is taken one   *)
(* Quantum below, which keeps the sampled draws few.                       *)
(***************************************************************************)
WideConfigs ==
    { [ onDemand |-> d, testMode |-> FALSE, startDelay |-> StartDelayRandom,
        cycles |-> 0, minInterval |-> U64Max - Quantum, maxInterval |-> U64Max,
        staticDuration |-> Quantum, effectDuration |-> Quantum ] :
      d \in BOOLEAN }

InitWide ==
    /\ cfg \in WideConfigs
    /\ env = Given(CommandLineOf(cfg), SameSizes)
    /\ AtEntry

SpecWide == InitWide /\ [][Next]_vars

(***************************************************************************)
(* The runs with devices that settle on other sizes than the one asked     *)
(* for: the capture device on 1920x1080 or 1280x720 at each open, the      *)
(* output device on the size asked for or on 640x480.  Both modes, with    *)
(* --test and a budget of two cycles.                                      *)
(***************************************************************************)
Size720 == << 1280, 720 >>

Size480 == << 640, 480 >>

OtherSizes == [camera |-> {DefaultSize, Size720}, output |-> {NoSize, Size480}]

InitOutput ==
    /\ cfg \in {c \in Configs : c.testMode /\ c.cycles > 0}
    /\ env = Given(CommandLineOf(cfg), OtherSizes)
    /\ AtEntry

SpecOutput == InitOutput /\ [][Next]_vars

(***************************************************************************)
(* The runs of every command line of at most two timing flags, each        *)
(* --test or --start-delay with 0 ms, 2 * Quantum ms, UINT64_MAX - 1 ms or *)
(* UINT64_MAX ms (parseTime returns them for "18446744073709551614" and    *)
(* "18446744073709551615"), in both modes, with a budget of two cycles.    *)
(***************************************************************************)
MaxFlags == 2

Flags ==
    {FlagTest} \cup {FlagStartDelay(d) : d \in {0, 2 * Quantum, U64Max - 1, U64Max}}

CommandLines == UNION { [1..n -> Flags] : n \in 0..MaxFlags }

InitFlags ==
    /\ env \in {Given(a, SameSizes) : a \in CommandLines}
    /\ cfg \in {c \in [ onDemand       : BOOLEAN,
                        testMode       : BOOLEAN,
                        startDelay     : {0, 2 * Quantum, U64Max - 1, U64Max},
                        cycles         : {2},
                        minInterval    : {Quantum},
                        maxInterval    : {2 * Quantum},
                        staticDuration : {Quantum},
                        effectDuration : {Quantum} ] :
                    parseArgs(env.argv) = [testMode   |-> c.testMode,
                                           startDelay |-> c.startDelay]}
    /\ AtEntry

SpecFlags == InitFlags /\ [][Next]_vars

(***************************************************************************)
(* StaticEffect (static_effect.cpp), the renderer of the filler: its size  *)
(* animation as functions of the renderer's state, the reading `t` of the  *)
(* renderer's own clock at the call and, for the calls that build the      *)
(* cached frames, the time `b` the build takes.                            *)
(***************************************************************************)
MinCharSize == 1

MaxCharSize == 5

GrowDurationMs == 10000

\* initialize(width, height), lines 35-43
StaticInitialize(r) == [startTime |-> 0, charSize |-> 0, complete |-> FALSE]

\* resetForIdle(), lines 76-83
ResetForIdle(r, t) ==
    [startTime |-> t, charSize |-> MinCharSize, complete |-> FALSE]

\* resetForEffect(), lines 85-92
ResetForEffect(r, t) ==
    [startTime |-> t, charSize |-> MaxCharSize, complete |-> TRUE]

\* generate(), lines 246-293, called at t; a resetForIdle it makes takes b.
\* The float product progress * (MAX - MIN) truncates to the same integer
\* as the exact quotient for every elapsed < GROW_DURATION_MS.
StaticGenerate(r, t, b) ==
    LET r1 == IF r.startTime = 0 THEN ResetForIdle(r, t) ELSE r
        t1 == IF r.startTime = 0 THEN t + b ELSE t
        elapsed == t1 - r1.startTime
    IN  IF r1.complete THEN r1
        ELSE IF elapsed >= GrowDurationMs
             THEN [r1 EXCEPT !.charSize = MaxCharSize, !.complete = TRUE]
             ELSE [r1 EXCEPT !.charSize =
                      MinCharSize
                        + (elapsed * (MaxCharSize - MinCharSize)) \div GrowDurationMs]

\* One call on staticEffect, made at t.
StaticCall(call, r, t, b) ==
    CASE call = "initialize"     -> StaticInitialize(r)
      [] call = "resetForIdle"   -> ResetForIdle(r, t)
      [] call = "resetForEffect" -> ResetForEffect(r, t)
      [] call = "generate"       -> StaticGenerate(r, t, b)

\* The renderer after the calls of an iteration, the first made at t, each
\* call that builds frames taking b.
RECURSIVE StaticCalls(_, _, _, _)
StaticCalls(calls, r, t, b) ==
    IF calls = << >> THEN r
    ELSE StaticCalls(Tail(calls), StaticCall(Head(calls), r, t, b),
                     IF Head(calls) \in {"resetForIdle", "resetForEffect"}
                     THEN t + b ELSE t, b)

(***************************************************************************)
(* The detector's two public functions, each called once on a host: hosts  *)
(* with some counter file, with a few process tables, and hosts with none, *)
(* with every process table of at most MaxEntries entries.  The main loop  *)
(* stays at the start of main().                                           *)
(***************************************************************************)
MaxCount == 3

MaxEntries == 2

CounterFiles ==
    [open : {FALSE}, value : {0}] \cup [open : {TRUE}, value : 0..MaxCount]

Descriptors ==
    { << >>, << OtherPath >>, << DevicePath >>, << OtherPath, DevicePath >>,
      << DevicePath, DevicePath >> }

Entries ==
    [kind : {"process"}, pid : OurPid..(OurPid + MaxEntries),
     readable : BOOLEAN, fds : Descriptors]
      \cup [kind : {"other"}, pid : {0}, readable : {FALSE}, fds : {<< >>}]

\* The listings of /proc: no pid twice.
Tables ==
    { tb \in UNION {[1..n -> Entries] : n \in 0..MaxEntries} :
        \A i, j \in 1..Len(tb) :
            (i # j /\ tb[i].kind = "process" /\ tb[j].kind = "process")
                => tb[i].pid # tb[j].pid }

\* A process table in which our own process and an unreadable one hold the
\* device, and another process holds it twice.
BusyTable ==
    << [kind |-> "process", pid |-> OurPid, readable |-> TRUE,
        fds |-> << DevicePath >>],
       [kind |-> "process", pid |-> OurPid + 1, readable |-> FALSE,
        fds |-> << DevicePath >>],
       [kind |-> "process", pid |-> OurPid + 2, readable |-> TRUE,
        fds |-> << DevicePath, DevicePath >>] >>

Hosts ==
    { h \in [sysfs : [1..3 -> CounterFiles], procOpen : BOOLEAN,
             table : {<< >>, BusyTable}] :
        \E i \in 1..3 : h.sysfs[i].open }
      \cup [sysfs : {[i \in 1..3 |-> [open |-> FALSE, value |-> 0]]},
            procOpen : BOOLEAN, table : Tables \cup {BusyTable}]

InitDetector ==
    /\ cfg \in {c \in Configs : c.onDemand /\ c.testMode /\ c.cycles = 0}
    /\ env = Given(CommandLineOf(cfg), SameSizes)
    /\ LoopAtEntry
    /\ OthersIdle
    /\ detector \in {OnHost(h) : h \in Hosts}

\* consumerDetector.hasConsumers()
AskHasConsumers ==
    /\ ~detector.has.asked
    /\ detector' = [detector EXCEPT !.has = Asked(detectorHasConsumers(detector.host))]
    /\ UNCHANGED << loopVars, durations, options, capture >>

\* consumerDetector.getConsumerCount()
AskConsumerCount ==
    /\ ~detector.count.asked
    /\ detector' = [detector EXCEPT !.count = Asked(getConsumerCount(detector.host))]
    /\ UNCHANGED << loopVars, durations, options, capture >>

NextDetector == AskHasConsumers \/ AskConsumerCount

SpecDetector == InitDetector /\ [][NextDetector]_vars

TypeOK ==
    /\ cfg \in Configs
    /\ pc \in {"start", "loop", "done"}
    /\ exitCode \in {-1, 0, 1}
    /\ running \in BOOLEAN
    /\ clock \in 0..MaxTime
    /\ cameraOpen \in BOOLEAN
    /\ outputOpen \in BOOLEAN
    /\ cameraState \in CameraStates
    /\ effectState \in EffectStates
    /\ effectTimerInitialized \in BOOLEAN
    /\ effectsFinished \in BOOLEAN
    /\ cycleCount \in Nat
    /\ video \in [local : {DefaultSize}, output : {NoSize, DefaultSize},
                 effects : {NoSize, DefaultSize}]
    /\ env = Given(CommandLineOf(cfg), SameSizes)
    /\ Len(opens) <= MaxLog

(***************************************************************************)
(* Properties.  A "tick boundary" is a state with pc = "loop": the loop    *)
(* is between two iterations (or before its first).                        *)
(***************************************************************************)

\* C1: at every tick boundary, on-demand or not, the capture handle is open
\* if and only if the camera state is Active (so never while Idle or
\* Unavailable).
C1_HandleOpenIffActive ==
    pc = "loop" => (cameraOpen <=> cameraState = "ACTIVE")

\* C1 happens: the camera is Active again, handle open, after an earlier
\* open or capture failure of the same run.
C1_Witness ==
    /\ pc = "loop" /\ cameraState = "ACTIVE" /\ cameraOpen
    /\ tick.camStart = "UNAVAILABLE" /\ tick.open = "opened"

\* C2: whenever the camera enters Active, the sequencer is in Passthrough
\* (a sequence interrupted by leaving Active is not resumed).
C2_EntryToActiveInPassthrough ==
    (pc = "loop" /\ tick.open = "opened") => effectState = "PASSTHROUGH"

\* C3: whenever the camera state is not Active at a tick boundary, the
\* effect timer is uninitialized.
C3_TimerClearedOutsideActive ==
    (pc = "loop" /\ cameraState # "ACTIVE") => ~effectTimerInitialized

\* C4: a Transition begins only against a nextEffectTime that was computed
\* since the camera last entered Active.
C4_NoStaleFire ==
    (pc = "loop" /\ tick.began) => timerSetSinceActive

\* The delays the arming of the effect timer may add to the arming tick's
\* time: none in test mode, the explicit start delay, or a draw from
\* [minInterval, maxInterval].
ArmOffsets ==
    IF cfg.testMode THEN {0}
    ELSE IF cfg.startDelay = StartDelayRandom
         THEN cfg.minInterval .. cfg.maxInterval
         ELSE {cfg.startDelay}

\* C5: a consumer disconnect seen while the sequencer is in Substitute ends
\* that tick with the handle closed, the camera Idle, the effect timer
\* uninitialized and the sequencer in Passthrough; and the timer of a
\* session is always one armed within this session, on its first Active
\* tick, from that tick's time and the configuration alone.
C5_DisconnectInSubstitute ==
    pc = "loop" =>
      /\ (tick.edge = "disconnect" /\ tick.effStart = "MATRIX") =>
            /\ ~cameraOpen
            /\ cameraState = "IDLE"
            /\ ~effectTimerInitialized
            /\ effectState = "PASSTHROUGH"
      /\ (cfg.onDemand /\ effectTimerInitialized) => sessionArmed
      /\ (cfg.onDemand /\ tick.camMid = "ACTIVE") => sessionArmed
      /\ tick.armed => (nextEffectTime - clock) \in ArmOffsets

\* C5 happens: the consumer left while a Substitute was showing.
C5_Witness ==
    /\ pc = "loop" /\ tick.edge = "disconnect"
    /\ tick.effStart = "MATRIX" /\ tick.camStart = "ACTIVE"

C7_IdleIffNoConsumer ==
    (pc = "loop" /\ cfg.onDemand) =>
      /\ (cameraState = "IDLE" <=> ~hadConsumers)
      /\ (cameraState = "IDLE" => ~cameraOpen)

\* C7 happens: the consumer left an Active camera, which was released.
C7_Witness ==
    /\ pc = "loop" /\ cfg.onDemand /\ tick.edge = "disconnect"
    /\ tick.camStart = "ACTIVE" /\ cameraState = "IDLE"

\* C8: in on-demand mode the capture device is never opened while no
\* consumer is present, startup included.
C8_NoOpenWithoutConsumer ==
    cfg.onDemand => ~openedNoConsumer

\* C9: an open attempt made in Unavailable comes at least
\* cameraPollInterval after the previous attempt or the entry to
\* Unavailable; every attempt is made in Connecting or Unavailable, a
\* failed one leaves Unavailable and a successful one Active; and a
\* session whose first three attempts fail and whose fourth succeeds runs
\* Connecting -> Unavailable -> Unavailable -> Unavailable -> Active.
C9_PollSpacingAndSequence ==
    pc = "loop" =>
      /\ (tick.open # "none" /\ tick.camMid = "UNAVAILABLE") =>
            tick.gap >= CameraPollInterval
      /\ \A i \in 1..Len(opens) :
            /\ opens[i].at \in {"CONNECTING", "UNAVAILABLE"}
            /\ opens[i].to = (IF opens[i].ok THEN "ACTIVE" ELSE "UNAVAILABLE")
      /\ (/\ cfg.onDemand
          /\ Len(opens) >= 4
          /\ [i \in 1..4 |-> opens[i].ok] = <<FALSE, FALSE, FALSE, TRUE>>) =>
            /\ [i \in 1..4 |-> opens[i].at] =
                  <<"CONNECTING", "UNAVAILABLE", "UNAVAILABLE", "UNAVAILABLE">>
            /\ [i \in 1..4 |-> opens[i].to] =
                  <<"UNAVAILABLE", "UNAVAILABLE", "UNAVAILABLE", "ACTIVE">>

\* C9 happens: three failed opens and a successful fourth in one session.
C9_Witness ==
    /\ pc = "loop" /\ cfg.onDemand /\ Len(opens) = 4
    /\ [i \in 1..4 |-> opens[i].ok] = <<FALSE, FALSE, FALSE, TRUE>>
    /\ cameraState = "ACTIVE" /\ tick.gap >= CameraPollInterval

\* The environment is kind from now on: no signal, the consumer (if the
\* mode looks for one) is present, and the last open attempt did not fail.
C10_Steady ==
    /\ pc = "loop" /\ running
    /\ cfg.onDemand => hadConsumers
    /\ tick.open # "failed"

\* C10: while the run flag is set no step leaves the loop, whatever open or
\* capture fails; a tick spent in Unavailable without an open attempt had
\* waited less than cameraPollInterval (the retry comes at every interval,
\* with no backoff); a camera that stays Unavailable with the consumer
\* present is polled again and again; and if from some point on every open
\* attempt succeeds and the consumer stays, the camera is Active again and
\* again.
C10_NeverFatalAndRecovers ==
    /\ [][ (pc = "loop" /\ running) => pc' = "loop" ]_vars
    /\ [][ (pc' = "loop" /\ tick'.camMid = "UNAVAILABLE" /\ tick'.open = "none")
              => clock' - lastCameraPollTime' < CameraPollInterval ]_vars
    /\ <>[](pc = "loop" /\ running /\ cameraState = "UNAVAILABLE")
          => []<>(tick.open = "failed" /\ tick.camMid = "UNAVAILABLE")
    /\ <>[]C10_Steady => []<>(cameraState = "ACTIVE")

\* C10 happens: after a failed open and a capture failure the loop is still
\* running and the camera is Active once more.
C10_Witness ==
    /\ pc = "loop" /\ running /\ cameraState = "ACTIVE"
    /\ Len(opens) >= 2 /\ ~opens[1].ok
    /\ tick.camStart = "UNAVAILABLE" /\ tick.open = "opened"

\* C11: an iteration evaluates the consumer check, then the camera state,
\* then the effect sequencer.  An iteration that sees the consumer leave
\* ends in Idle with the handle closed, the effect timer cleared and the
\* sequencer in Passthrough; it opens nothing and reads no frame (so a read
\* that would have failed cannot make the state Unavailable) and writes the
\* filler.  An iteration that sees a consumer arrive makes its open attempt
\* at once, and a frame is read only where the switch ran on Active.
C11_DisconnectTakesPrecedence ==
    pc = "loop" =>
        /\ tick.edge = "disconnect" =>
              /\ tick.camMid = "IDLE" /\ cameraState = "IDLE"
              /\ ~cameraOpen /\ ~effectTimerInitialized
              /\ effectState = "PASSTHROUGH"
              /\ tick.open = "none" /\ tick.capture = "none"
              /\ ~tick.armed /\ ~tick.began
              /\ tick.frame = "filler"
        /\ tick.edge = "connect" =>
              tick.camMid = "CONNECTING" /\ tick.open # "none"
        /\ tick.capture # "none" => tick.camMid = "ACTIVE"

\* C11 happens: the consumer left an Active camera on an iteration whose
\* frame read would have failed.
C11_Witness ==
    /\ pc = "loop" /\ tick.edge = "disconnect" /\ tick.camStart = "ACTIVE"
    /\ tick.lost /\ cameraState = "IDLE" /\ ~cameraOpen

\* C12: between the start and the end of one iteration the camera state
\* changes at most once (tick.camStart is the state the iteration started
\* with, tick.camMid the state after the consumer check, cameraState the
\* state it ended with).
C12_OneTransitionPerTick ==
    pc = "loop" => ~(tick.camStart # tick.camMid /\ tick.camMid # cameraState)

C14_OnTimedRun ==
    /\ cfg = TimedRun /\ pc = "loop" /\ clock > 0
    /\ cameraState = "ACTIVE" /\ opens = << >>

\* The timed run's time: since the first iteration, which armed the timer
\* with its own clock reading (test mode) and began the Transition.
C14_Since == clock - nextEffectTime

\* C14: in the timed run (test mode, one cycle, 300 ms of Transition, 500 ms
\* of Substitute, camera always Active) the sequencer is in Passthrough
\* before the first iteration, in Transition (STATIC) until 300 ms, in
\* Substitute (MATRIX) from 300 ms to 800 ms and in Passthrough with
\* effectsFinished set from 800 ms on, each boundary late by less than one
\* iteration (at most 2 * ScenarioStep) per boundary passed and exact when
\* an iteration falls on it.  In every run, an iteration that captured a
\* frame leaves STATIC exactly if its clock reading is at least
\* staticDuration past stateStartTime, and leaves MATRIX exactly if it is at
\* least effectDuration past stateStartTime.
C14_TimedSequence ==
    /\ [](cfg = TimedRun /\ pc = "loop" /\ clock = 0 =>
            effectState = "PASSTHROUGH" /\ ~effectsFinished)
    /\ [](C14_OnTimedRun =>
            /\ effectTimerInitialized
            /\ C14_Since < 300 => effectState = "STATIC"
            /\ effectState = "STATIC" => C14_Since < 300 + 2 * ScenarioStep
            /\ effectState = "MATRIX" =>
                  /\ stateStartTime - nextEffectTime >= 300
                  /\ stateStartTime - nextEffectTime < 300 + 2 * ScenarioStep
                  /\ clock - stateStartTime < 500 + 2 * ScenarioStep
            /\ (C14_Since >= 300 + 2 * ScenarioStep /\ C14_Since < 800) =>
                  effectState = "MATRIX"
            /\ C14_Since >= 800 + 4 * ScenarioStep => effectState = "PASSTHROUGH"
            /\ effectState = "PASSTHROUGH" <=> effectsFinished
            /\ effectsFinished => C14_Since >= 800 /\ cycleCount = 1)
    /\ [][ (pc = "loop" /\ clock' > clock /\ tick'.capture = "ok") =>
            /\ effectState = "STATIC" =>
                 /\ effectState' \in {"STATIC", "MATRIX"}
                 /\ effectState' = "MATRIX" <=>
                        clock' - stateStartTime >= cfg.staticDuration
            /\ effectState = "MATRIX" =>
                 /\ effectState' \in {"MATRIX", "PASSTHROUGH"}
                 /\ effectState' = "PASSTHROUGH" <=>
                        clock' - stateStartTime >= cfg.effectDuration ]_vars

\* C14 happens: the timed run with an iteration on each boundary: the
\* Substitute began at 300 ms and the iteration at 800 ms ended it and set
\* effectsFinished.
C14_Witness ==
    /\ C14_OnTimedRun /\ C14_Since = 800
    /\ tick.effStart = "MATRIX" /\ effectState = "PASSTHROUGH"
    /\ effectsFinished /\ cycleCount = 1

\* The last iteration drew a random interval: it armed the timer with no
\* --test and no --start-delay given, or it completed a cycle without
\* exhausting the budget.
C15_Drew ==
    /\ pc = "loop"
    /\ \/ tick.armed /\ ~cfg.testMode /\ cfg.startDelay = StartDelayRandom
       \/ /\ tick.capture = "ok" /\ tick.effStart = "MATRIX"
          /\ effectState = "PASSTHROUGH" /\ ~effectsFinished

\* C15: a nextEffectTime drawn in an iteration with clock reading `now`
\* satisfies now + minInterval <= nextEffectTime <= now + maxInterval.
C15_DrawWithinInterval ==
    C15_Drew => /\ clock + cfg.minInterval <= nextEffectTime
                /\ nextEffectTime <= clock + cfg.maxInterval

\* C16: the effect timer is armed once per consumer session (once per run
\* when not on-demand): an iteration arms it only if it was not armed since
\* the last consumer connect, and only where the switch ran on Active; every
\* iteration that ran on Active leaves it armed, so the arming is on the
\* session's first Active iteration, also when the camera is lost and
\* regained within the session.  The armed time is the iteration's clock
\* reading (test mode), that plus the start delay, or that plus a draw.
C16_ArmedOncePerSession ==
    /\ [][ (clock' > clock /\ tick'.armed) =>
              /\ ~sessionArmed /\ ~effectTimerInitialized
              /\ tick'.camMid = "ACTIVE" /\ tick'.edge = "none" ]_vars
    /\ [](pc = "loop" /\ tick.camMid = "ACTIVE" =>
              sessionArmed /\ effectTimerInitialized)
    /\ [](pc = "loop" /\ tick.armed =>
              nextEffectTime - clock \in
                  IF cfg.testMode THEN {0}
                  ELSE IF cfg.startDelay = StartDelayRandom
                       THEN randomIntervalMs(cfg.minInterval, cfg.maxInterval)
                       ELSE {cfg.startDelay})

\* C16 happens: the timer is armed for a second consumer session, after a
\* session that was armed and completed an effect.
C16_Witness ==
    /\ pc = "loop" /\ cfg.onDemand /\ tick.armed /\ cycleCount > 0

\* C17: the sequencer enters STATIC (a new Transition) only from
\* Passthrough and only in an iteration whose switch ran on Active and whose
\* frame read succeeded; an iteration whose switch ran on Idle, Connecting
\* or Unavailable, or whose frame read failed, leaves the sequencer as it
\* was, except that an iteration seeing the consumer leave resets it to
\* Passthrough; no step other than an iteration changes it.
C17_TransitionNeedsFrame ==
    [][ /\ clock' = clock => effectState' = effectState
        /\ clock' > clock =>
             /\ (effectState' = "STATIC" /\ effectState # "STATIC") =>
                   /\ effectState = "PASSTHROUGH"
                   /\ tick'.camMid = "ACTIVE" /\ tick'.capture = "ok"
             /\ tick'.began <=> (effectState' = "STATIC" /\ effectState # "STATIC")
             /\ (tick'.camMid # "ACTIVE" \/ tick'.capture # "ok") =>
                   \/ effectState' = effectState
                   \/ tick'.edge = "disconnect" /\ effectState' = "PASSTHROUGH"
      ]_vars

\* C17 happens: a second Transition begins, from Passthrough, on a captured
\* frame.
C17_Witness ==
    /\ pc = "loop" /\ tick.began /\ tick.effStart = "PASSTHROUGH"
    /\ tick.camMid = "ACTIVE" /\ tick.capture = "ok"
    /\ effectState = "STATIC" /\ cycleCount > 0

\* The loop is running with the camera Active.
ActiveAndRunning == pc = "loop" /\ running /\ cameraState = "ACTIVE"

\* C18: the sequencer only moves Passthrough -> STATIC (Transition) ->
\* MATRIX (Substitute) -> Passthrough, or back to Passthrough by the reset
\* of a consumer disconnect; and a Transition is followed by the Substitute,
\* and the Substitute by Passthrough, unless the camera stops being Active
\* (or the run is stopped) first.
C18_SequencerOrder ==
    /\ [][ effectState' # effectState =>
             \/ effectState = "PASSTHROUGH" /\ effectState' = "STATIC"
             \/ effectState = "STATIC" /\ effectState' = "MATRIX"
             \/ effectState = "MATRIX" /\ effectState' = "PASSTHROUGH"
             \/ tick'.edge = "disconnect" /\ effectState' = "PASSTHROUGH" ]_vars
    /\ (effectState = "STATIC") ~> (effectState = "MATRIX" \/ ~ActiveAndRunning)
    /\ (effectState = "MATRIX") ~> (effectState = "PASSTHROUGH" \/ ~ActiveAndRunning)

\* C18 happens: a whole sequence ran: the Substitute ended in Passthrough on
\* a captured frame.
C18_Witness ==
    /\ pc = "loop" /\ tick.effStart = "MATRIX" /\ tick.capture = "ok"
    /\ effectState = "PASSTHROUGH" /\ cameraState = "ACTIVE" /\ cycleCount = 1

\* C19: with cycles = 0 effectsFinished is never set; every completed cycle
\* (cycleCount changes) ends in Passthrough with a new nextEffectTime, one
\* draw from [minInterval, maxInterval] ahead; and if from some point on the
\* camera stays Active, a Transition begins again and again.
C19_RepeatsForever ==
    /\ [](cfg.cycles = 0 => ~effectsFinished)
    /\ [][ (cfg.cycles = 0 /\ cycleCount' # cycleCount) =>
             /\ effectState = "MATRIX" /\ effectState' = "PASSTHROUGH"
             /\ nextEffectTime' - clock' \in
                    randomIntervalMs(cfg.minInterval, cfg.maxInterval) ]_vars
    /\ <>[]ActiveAndRunning => []<>(tick.began /\ effectState = "STATIC")

\* C19 happens: without a budget, a third Transition begins after two
\* completed cycles.
C19_Witness ==
    /\ pc = "loop" /\ cfg.cycles = 0 /\ cycleCount = 2
    /\ tick.began /\ effectState = "STATIC" /\ ~effectsFinished

\* C20: once the signal handler has cleared the run flag nothing sets it
\* again and no further iteration runs (the clock is not read again, the
\* camera and effect states stay as the signal found them); the loop is
\* left, and the process is done with exit code 0 only with the capture
\* handle and the output handle both closed.
C20_SignalStopsAndReleases ==
    /\ [][ ~running => ~running' ]_vars
    /\ [][ (pc = "loop" /\ ~running) =>
             /\ clock' <= clock /\ tick' = tick
             /\ cameraState' = cameraState /\ effectState' = effectState
             /\ pc' = "loop" \/ (pc' = "done" /\ exitCode' = 0) ]_vars
    /\ [](pc = "done" /\ exitCode = 0 =>
             ~running /\ ~cameraOpen /\ ~outputOpen)
    /\ (pc = "loop" /\ ~running) ~> (pc = "done" /\ exitCode = 0)

\* C20 happens: the signal arrived with the camera Active in the middle of
\* the Substitute, and the process is done with both handles closed.
C20_Witness ==
    /\ pc = "done" /\ exitCode = 0 /\ ~running
    /\ cameraState = "ACTIVE" /\ effectState = "MATRIX"
    /\ ~cameraOpen /\ ~outputOpen

\* C21: main returns 1 only from the setup, before any iteration, and
\* exactly when the setup could not open a capture device with on-demand
\* disabled or could not open the output device; a failed camera probe in
\* on-demand mode, with the output opened, starts the loop in Idle; after
\* the loop main returns 0, and only with the run flag cleared.
C21_ExitCodes ==
    /\ [](exitCode = 1 =>
            /\ pc = "done" /\ clock = 0 /\ tick.frame = "none"
            /\ \/ ~cfg.onDemand /\ tick.probe = "failed"
               \/ tick.output = "failed")
    /\ []((pc # "start" /\ clock = 0 /\ tick.frame = "none") =>
            /\ tick.probe \in {"opened", "failed"}
            /\ (~cfg.onDemand /\ tick.probe = "failed") => exitCode = 1
            /\ tick.output = "failed" => exitCode = 1
            /\ (cfg.onDemand /\ tick.probe = "failed" /\ tick.output # "failed" /\ pc = "loop")
                  => (tick.output = "opened" /\ cameraState = "IDLE"
                         /\ ~cameraOpen /\ outputOpen /\ exitCode = -1))
    /\ [](exitCode = 0 => pc = "done" /\ ~running)
    /\ [][ (pc = "loop" /\ pc' # "loop") =>
              (~running /\ pc' = "done" /\ exitCode' = 0) ]_vars

\* C21 happens: on-demand mode, the startup probe failed, and the loop
\* starts in Idle.
C21_Witness ==
    /\ pc = "loop" /\ cfg.onDemand /\ tick.probe = "failed"
    /\ tick.output = "opened" /\ cameraState = "IDLE" /\ exitCode = -1

(***************************************************************************)
(* C22: the output format is decided once, at the output open of the       *)
(* setup.  Once the loop runs the output device is never opened again and  *)
(* its width and height never change, whatever size a later camera open    *)
(* settles on; every frame an iteration produces is written at the         *)
(* output's size, so a frame of another size is scaled to it.              *)
(***************************************************************************)
C22_OutputFormatFixed ==
    /\ [][ pc # "start" =>
             /\ video'.output = video.output
             /\ (outputOpen' => outputOpen)
             /\ tick'.output = tick.output \/ tick'.output = "none" ]_vars
    /\ []( pc = "loop" => outputOpen /\ video.output # NoSize )
    /\ []( (pc = "loop" /\ tick.frame # "none") =>
             /\ FrameSize # NoSize
             /\ WriteFrame = video.output )

\* A live frame of 1280x720, from a camera opened after the setup, written
\* to an output that settled on 640x480 when the setup asked for 1920x1080.
C22_Witness ==
    /\ pc = "loop" /\ tick.frame = "live" /\ tick.open = "none"
    /\ FrameSize = Size720 /\ video.output = Size480
    /\ WriteFrame = Size480 /\ video.effects = Size720

(***************************************************************************)
(* C23: with on-demand disabled no iteration asks the consumer detector,   *)
(* every iteration goes by hasConsumers = true and sees no consumer edge,  *)
(* the loop starts with the camera state Active, and the camera state is   *)
(* never Idle or Connecting, neither between iterations nor when the       *)
(* switch runs.                                                            *)
(***************************************************************************)
C23_NoDetectorWithoutOnDemand ==
    ~cfg.onDemand =>
        /\ (pc = "loop" /\ clock = 0) => cameraState = "ACTIVE"
        /\ pc # "start" => cameraState \notin {"IDLE", "CONNECTING"}
        /\ (pc # "start" /\ clock > 0) =>
              /\ ~tick.queried /\ tick.present /\ tick.edge = "none"
              /\ tick.camStart \notin {"IDLE", "CONNECTING"}
              /\ tick.camMid \notin {"IDLE", "CONNECTING"}
        /\ ~hadConsumers

\* An iteration of the mode writing a live frame, several iterations in.
C23_Witness ==
    /\ ~cfg.onDemand /\ pc = "loop" /\ clock >= 3 * Quantum
    /\ ~tick.queried /\ tick.present /\ tick.frame = "live"
    /\ cameraState = "ACTIVE"

(***************************************************************************)
(* C24: with on-demand disabled the camera state is never Unavailable and  *)
(* the capture handle is open at every iteration.                          *)
(* The capture-failure branch of the ACTIVE case (lines 668-676) is not    *)
(* guarded by the mode: a failed read closes the handle and enters         *)
(* Unavailable, and the following iterations poll for the camera.          *)
(***************************************************************************)
C24_NeverUnavailableWithoutOnDemand ==
    (~cfg.onDemand /\ pc = "loop") =>
        /\ cameraState # "UNAVAILABLE"
        /\ cameraOpen

\* The command line with every --test replaced by --start-delay 0.
TestReplaced(argv) ==
    [i \in 1..Len(argv) |->
        IF argv[i].opt = "test" THEN FlagStartDelay(0) ELSE argv[i]]

(***************************************************************************)
(* C25: --test is the same as --start-delay 0.  On every arming of the     *)
(* effect timer in a run whose command line has --test, nextEffectTime is  *)
(* the arming tick's time, and it is what the arming gives for the command *)
(* line with --test replaced by --start-delay 0, whatever the other flags  *)
(* and their order.                                                        *)
(* A --start-delay d that follows --test is overridden by testMode (line   *)
(* 650), while it overrides a --start-delay 0 in the same place.           *)
(***************************************************************************)
C25_TestIsStartDelayZero ==
    (/\ pc = "loop" /\ tick.armed
     /\ \E i \in 1..Len(env.argv) : env.argv[i].opt = "test") =>
        /\ nextEffectTime = clock
        /\ \A draw \in randomIntervalMs(cfg.minInterval, cfg.maxInterval) :
              FirstEffectTime(parseArgs(TestReplaced(env.argv)), clock, draw)
                  = nextEffectTime

\* The command line gives --start-delay and no --test.
ExplicitStartDelay ==
    /\ \E i \in 1..Len(env.argv) : env.argv[i].opt = "start-delay"
    /\ \A i \in 1..Len(env.argv) : env.argv[i].opt # "test"

\* The delay of the last --start-delay of the command line.
LastStartDelay ==
    LET given == {i \in 1..Len(env.argv) : env.argv[i].opt = "start-delay"}
        last  == CHOOSE i \in given : \A j \in given : j <= i
    IN  env.argv[last].ms

(***************************************************************************)
(* C26: with an explicit start delay d and no --test, the arming of a      *)
(* session's timer sets the first Transition due d ms after the arming     *)
(* tick, not at a random time, so that the Transition begins on the arming *)
(* tick only if d = 0.                                                     *)
(* currentTime + config.startDelay (line 657) is a uint64_t sum, and       *)
(* UINT64_MAX is both a delay --start-delay can give and the sentinel for  *)
(* the random start (lines 404, 653).                                      *)
(***************************************************************************)
C26_ExplicitStartDelay ==
    (pc = "loop" /\ tick.armed /\ ExplicitStartDelay) =>
        /\ nextEffectTime = clock + LastStartDelay
        /\ tick.began => LastStartDelay = 0

\* The states a renderer can be in before an iteration (never reset, reset
\* at some earlier time, growing or complete), the clock readings of an
\* iteration's first call, and the times a build of the cached frames takes;
\* every build is taken to end within the grow duration.
Renderers ==
    [startTime : {0, 1, GrowDurationMs}, complete : BOOLEAN,
     charSize : {0, MinCharSize, MaxCharSize}]

RendererTimes == {GrowDurationMs, 3 * GrowDurationMs}

BuildTimes == {0, GrowDurationMs \div 4, GrowDurationMs - 1}

(***************************************************************************)
(* C27: the camera state becomes Idle only in an iteration that sees the   *)
(* consumer leave, and such an iteration calls staticEffect.resetForIdle() *)
(* and then, in the IDLE case of the switch, staticEffect.generate(), and  *)
(* nothing else on the renderer.  Whatever the renderer's state before     *)
(* (full size and complete after an effect, or grown), the frame that      *)
(* generate() returns is one of the growing animation restarted in this    *)
(* iteration: the animation is not complete and the character size is the  *)
(* interpolated one, below the full size.                                  *)
(***************************************************************************)
C27_IdleEntryGrowingFiller ==
    /\ [][ (cameraState # "IDLE" /\ cameraState' = "IDLE") =>
              tick'.edge = "disconnect" ]_vars
    /\ []( (pc = "loop" /\ tick.edge = "disconnect") =>
              /\ cameraState = "IDLE" /\ tick.camMid = "IDLE"
              /\ tick.frame = "filler"
              /\ tick.calls = << "resetForIdle", "generate" >>
              /\ \A r \in Renderers, t \in RendererTimes, b \in BuildTimes :
                    LET g == StaticCalls(tick.calls, r, t, b)
                    IN  /\ ~g.complete
                        /\ g.startTime = t
                        /\ g.charSize = MinCharSize
                             + (b * (MaxCharSize - MinCharSize)) \div GrowDurationMs
                        /\ g.charSize < MaxCharSize )

\* C27 happens: the consumer leaves during a Transition, when the renderer
\* is at full size with its animation complete.
C27_Witness ==
    /\ pc = "loop" /\ tick.edge = "disconnect"
    /\ tick.camStart = "ACTIVE" /\ tick.effStart = "STATIC"
    /\ tick.calls = << "resetForIdle", "generate" >>
    /\ cameraState = "IDLE" /\ tick.frame = "filler"

\* Some counter file of the host opens, and the value of the first that does.
CounterFound == \E i \in 1..Len(detector.host.sysfs) : detector.host.sysfs[i].open

CounterValue ==
    LET s == detector.host.sysfs
        first == CHOOSE i \in 1..Len(s) : s[i].open /\ \A j \in 1..(i - 1) : ~s[j].open
    IN  s[first].value

(***************************************************************************)
(* C28: when a counter file is read with value c, getConsumerCount()       *)
(* returns max(0, c - 1) and hasConsumers() returns c - 1 > 0; so c = 1    *)
(* gives false, c = 2 gives true and a count of 1, and hasConsumers()      *)
(* holds exactly when getConsumerCount() > 0.                              *)
(***************************************************************************)
C28_CounterMinusWriter ==
    CounterFound =>
        LET c == CounterValue
        IN  /\ detector.count.asked =>
                 /\ detector.count.value = IF c - 1 > 0 THEN c - 1 ELSE 0
                 /\ c = 2 => detector.count.value = 1
            /\ detector.has.asked =>
                 /\ detector.has.value = (c - 1 > 0)
                 /\ c = 1 => ~detector.has.value
                 /\ c = 2 => detector.has.value
            /\ (detector.has.asked /\ detector.count.asked) =>
                 (detector.has.value <=> detector.count.value > 0)

\* C28 happens: the first counter file is missing, the second reads 2.
C28_Witness ==
    /\ ~detector.host.sysfs[1].open /\ detector.host.sysfs[2].open
    /\ detector.host.sysfs[2].value = 2
    /\ detector.has.asked /\ detector.count.asked
    /\ detector.has.value /\ detector.count.value = 1

\* The processes the scan can match: other than our own, with an fd
\* directory it can read, holding the device.
Consumers ==
    LET tb == detector.host.table
    IN  { i \in 1..Len(tb) : /\ tb[i].kind = "process" /\ tb[i].pid # OurPid
                             /\ tb[i].readable /\ HoldsDevice(tb[i]) }

(***************************************************************************)
(* C29: the probes are tried in order.  When a counter file is found,      *)
(* neither function opens /proc.  When none is found both scan /proc, and  *)
(* if it can be opened getConsumerCount() is the number of processes       *)
(* other than our own that show a descriptor whose target is the device    *)
(* path, each counted once however many such descriptors it has, and       *)
(* hasConsumers() is true exactly when that number is positive, having     *)
(* stopped at the first such process.                                      *)
(***************************************************************************)
C29_ProbesInOrder ==
    /\ (CounterFound /\ detector.has.asked) =>
          ~detector.has.proc /\ detector.has.read = << >>
    /\ (CounterFound /\ detector.count.asked) =>
          ~detector.count.proc /\ detector.count.read = << >>
    /\ (~CounterFound /\ detector.count.asked) =>
          /\ detector.count.proc
          /\ detector.host.procOpen =>
                detector.count.value = Cardinality(Consumers)
    /\ (~CounterFound /\ detector.has.asked) =>
          /\ detector.has.proc
          /\ detector.host.procOpen =>
                /\ detector.has.value = (Cardinality(Consumers) > 0)
                /\ detector.has.value =>
                      LET tb == detector.host.table
                          first == CHOOSE i \in Consumers : \A j \in Consumers : i <= j
                      IN  detector.has.read[Len(detector.has.read)] = tb[first].pid

\* C29 happens: no counter file; two other processes hold the device, one
\* of them on two descriptors, and the count is 2.
C29_Witness ==
    /\ ~CounterFound /\ detector.host.procOpen
    /\ detector.count.asked /\ detector.count.value = 2
    /\ detector.has.asked /\ detector.has.value
    /\ \E i \in Consumers :
          detector.host.table[i].fds = << DevicePath, DevicePath >>

(***************************************************************************)
(* C30: detection failures give no error, only "no consumer".  A process   *)
(* whose fd directory cannot be opened counts as non-matching, whatever it *)
(* holds, and the processes listed after it are still examined; when       *)
(* /proc cannot be opened and no counter file exists, hasConsumers() is    *)
(* false and getConsumerCount() is 0.                                      *)
(***************************************************************************)
C30_FailuresAreNoConsumer ==
    LET tb == detector.host.table
        hidden == { i \in 1..Len(tb) : tb[i].kind = "process" /\ ~tb[i].readable }
        after  == { i \in Consumers : \E j \in hidden : j < i }
    IN  /\ detector.has.asked => detector.has.value \in BOOLEAN
        /\ detector.count.asked => detector.count.value \in Nat
        /\ (~CounterFound /\ ~detector.host.procOpen) =>
              /\ detector.has.asked => ~detector.has.value
              /\ detector.count.asked => detector.count.value = 0
        /\ (~CounterFound /\ detector.host.procOpen) =>
              /\ detector.count.asked =>
                    /\ \A i \in hidden :
                          \A k \in 1..Len(detector.count.read) :
                              detector.count.read[k] # tb[i].pid
                    /\ detector.count.value >= Cardinality(after)
                    /\ detector.count.value =
                          Cardinality(Consumers \ hidden)
              /\ detector.has.asked =>
                    /\ after # {} => detector.has.value
                    /\ detector.has.value = (Consumers \ hidden # {})
                    /\ (\A i \in 1..Len(tb) : i \in hidden \/ Skipped(tb[i]))
                          => ~detector.has.value

\* C30 happens: a process that holds the device cannot be read, and the
\* process listed after it is found.
C30_Witness ==
    /\ ~CounterFound /\ detector.host.procOpen
    /\ detector.count.asked /\ detector.has.asked
    /\ Len(detector.host.table) = 2
    /\ detector.host.table[1].kind = "process" /\ ~detector.host.table[1].readable
    /\ detector.host.table[1].pid # OurPid /\ HoldsDevice(detector.host.table[1])
    /\ Consumers = {2}
    /\ detector.count.value = 1 /\ detector.has.value

(***************************************************************************)
(* parseTime and formatTime (time_utils.h).  A string is the sequence of   *)
(* its characters.  The functions compute in uint64_t; the model's word    *)
(* for them is DurationModulus, which stands for 2^64: it is wider than    *)
(* the factor of every unit, so that the strings of a few digits parse     *)
(* as they do in the program and the longest ones reach the end of the     *)
(* range.                                                                  *)
(***************************************************************************)
DurationModulus == 16777216

DurationMax == DurationModulus - 1

DigitChars == << "0", "1", "2", "3", "4", "5", "6", "7", "8", "9" >>

UpperChars == << "A", "B", "C", "D", "E", "F", "G", "H", "I", "J", "K", "L", "M",
                 "N", "O", "P", "Q", "R", "S", "T", "U", "V", "W", "X", "Y", "Z" >>

LowerChars == << "a", "b", "c", "d", "e", "f", "g", "h", "i", "j", "k", "l", "m",
                 "n", "o", "p", "q", "r", "s", "t", "u", "v", "w", "x", "y", "z" >>

\* std::isdigit
IsDigit(ch) == \E i \in 1..10 : DigitChars[i] = ch

DigitOf(ch) == (CHOOSE i \in 1..10 : DigitChars[i] = ch) - 1

\* ::tolower
ToLower(ch) ==
    IF \E i \in 1..26 : UpperChars[i] = ch
    THEN LowerChars[CHOOSE i \in 1..26 : UpperChars[i] = ch]
    ELSE ch

\* std::transform(unit.begin(), unit.end(), unit.begin(), ::tolower)
Lowered(text) == [i \in 1..Len(text) |-> ToLower(text[i])]

\* a * b in uint64_t, by doubling, so that no step leaves the model's word
\* by more than a factor of three.
RECURSIVE MulU64(_, _)
MulU64(a, b) ==
    IF b = 0 THEN 0
    ELSE (2 * MulU64(a, b \div 2) + (b % 2) * a) % DurationModulus

\* What a call returns or throws.
Returned(v) == [thrown |-> "none", value |-> v]

Thrown(e) == [thrown |-> e, value |-> -1]

\* std::stoull on a string of digits: std::out_of_range when the number is
\* above ULLONG_MAX.  acc is the number read so far, -1 once out of range.
RECURSIVE Stoull(_, _)
Stoull(acc, digits) ==
    IF digits = << >> THEN acc
    ELSE IF acc = -1 \/ acc * 10 + DigitOf(Head(digits)) > DurationMax
         THEN Stoull(-1, Tail(digits))
         ELSE Stoull(acc * 10 + DigitOf(Head(digits)), Tail(digits))

\* The loop of lines 21-28, from index i (counted from 1 here): unitStart,
\* the number of characters before the first that is no digit.
RECURSIVE UnitStart(_, _)
UnitStart(input, i) ==
    IF i > Len(input) THEN Len(input)
    ELSE IF ~IsDigit(input[i]) THEN i - 1
    ELSE UnitStart(input, i + 1)

\* The unit tokens of lines 45-51, by the factor they stand for.
UnitsMs ==
    { << "m", "s" >>, << "m", "i", "l", "l", "i" >>,
      << "m", "i", "l", "l", "i", "s", "e", "c", "o", "n", "d" >>,
      << "m", "i", "l", "l", "i", "s", "e", "c", "o", "n", "d", "s" >> }

UnitsSec ==
    { << "s" >>, << "s", "e", "c" >>, << "s", "e", "c", "s" >>,
      << "s", "e", "c", "o", "n", "d" >>,
      << "s", "e", "c", "o", "n", "d", "s" >> }

UnitsMin ==
    { << "m" >>, << "m", "i", "n" >>, << "m", "i", "n", "u", "t", "e" >>,
      << "m", "i", "n", "u", "t", "e", "s" >> }

UnitsHour ==
    { << "h" >>, << "h", "o", "u", "r" >>, << "h", "o", "u", "r", "s" >> }

\* Mutant: the unit compared as written, without the conversion to lowercase.
parseTime_CaseSensitive(input) ==
    IF input = << >> THEN Thrown("invalid_argument")
    ELSE LET unitStart == UnitStart(input, 1)
             value == Stoull(0, SubSeq(input, 1, unitStart))
             unit  == SubSeq(input, unitStart + 1, Len(input))
         IN  IF unitStart = 0 THEN Thrown("invalid_argument")
             ELSE IF value = -1 THEN Thrown("out_of_range")
             ELSE IF unitStart >= Len(input) THEN Returned(value)
             ELSE IF unit \in UnitsMs THEN Returned(value)
             ELSE IF unit \in UnitsSec THEN Returned(MulU64(value, 1000))
             ELSE IF unit \in UnitsMin
                  THEN Returned(MulU64(MulU64(value, 60), 1000))
             ELSE IF unit \in UnitsHour
                  THEN Returned(MulU64(MulU64(MulU64(value, 60), 60), 1000))
             ELSE Thrown("invalid_argument")

\* Mutant: a unit taken for milliseconds by its first letter, so that "m"
\* and its longer forms count as milliseconds.
parseTime_MinuteIsMs(input) ==
    IF input = << >> THEN Thrown("invalid_argument")
    ELSE LET unitStart == UnitStart(input, 1)
             value == Stoull(0, SubSeq(input, 1, unitStart))
             unit  == Lowered(SubSeq(input, unitStart + 1, Len(input)))
         IN  IF unitStart = 0 THEN Thrown("invalid_argument")
             ELSE IF value = -1 THEN Thrown("out_of_range")
             ELSE IF unitStart >= Len(input) THEN Returned(value)
             ELSE IF unit \in UnitsMs \cup UnitsMin THEN Returned(value)
             ELSE IF unit \in UnitsSec THEN Returned(MulU64(value, 1000))
             ELSE IF unit \in UnitsHour
                  THEN Returned(MulU64(MulU64(MulU64(value, 60), 60), 1000))
             ELSE Thrown("invalid_argument")

\* parseTime (lines 15-56)
parseTime(input) ==
    IF input = << >> THEN Thrown("invalid_argument")
    ELSE LET unitStart == UnitStart(input, 1)
             value == Stoull(0, SubSeq(input, 1, unitStart))
             unit  == Lowered(SubSeq(input, unitStart + 1, Len(input)))
         IN  IF unitStart = 0 THEN Thrown("invalid_argument")
             ELSE IF value = -1 THEN Thrown("out_of_range")
             ELSE IF unitStart >= Len(input) THEN Returned(value)
             ELSE IF unit \in UnitsMs THEN Returned(value)
             ELSE IF unit \in UnitsSec THEN Returned(MulU64(value, 1000))
             ELSE IF unit \in UnitsMin
                  THEN Returned(MulU64(MulU64(value, 60), 1000))
             ELSE IF unit \in UnitsHour
                  THEN Returned(MulU64(MulU64(MulU64(value, 60), 60), 1000))
             ELSE Thrown("invalid_argument")

\* std::to_string of an unsigned number
RECURSIVE to_string(_)
to_string(n) ==
    IF n < 10 THEN << DigitChars[n + 1] >>
    ELSE Append(to_string(n \div 10), DigitChars[(n % 10) + 1])

\* Mutant: the whole seconds printed from one second on (<= for <).
formatTime_SecondsFromBelow(ms) ==
    IF ms < 999 THEN to_string(ms) \o << "m", "s" >>
    ELSE IF ms < 60000 THEN to_string(ms \div 1000) \o << "s" >>
    ELSE IF ms < 3600000 THEN to_string(ms \div 60000) \o << "m" >>
    ELSE to_string(ms \div 3600000) \o << "h" >>

\* Mutant: the quotient rounded to the nearest unit.
formatTime_Rounded(ms) ==
    IF ms < 1000 THEN to_string(ms) \o << "m", "s" >>
    ELSE IF ms < 60000 THEN to_string((ms + 500) \div 1000) \o << "s" >>
    ELSE IF ms < 3600000 THEN to_string((ms + 30000) \div 60000) \o << "m" >>
    ELSE to_string((ms + 1800000) \div 3600000) \o << "h" >>

\* formatTime (lines 59-69)
formatTime(ms) ==
    IF ms < 1000 THEN to_string(ms) \o << "m", "s" >>
    ELSE IF ms < 60000 THEN to_string(ms \div 1000) \o << "s" >>
    ELSE IF ms < 3600000 THEN to_string(ms \div 60000) \o << "m" >>
    ELSE to_string(ms \div 3600000) \o << "h" >>

(***************************************************************************)
(* The duration functions called in turn, each on what the one before      *)
(* returned: parseTime on a string, formatTime on a number of              *)
(* milliseconds.  `durations` holds the first input and what every call    *)
(* returned since.  The strings are a number followed by a suffix, and a   *)
(* few that start with no digit; the numbers lie around the limits of the  *)
(* units and of the word.  The main loop stays at the start of main().     *)
(***************************************************************************)
MaxCalls == 4

AString(s) == [is |-> "string", text |-> s, ms |-> -1, thrown |-> "none"]

AValue(v) == [is |-> "value", text |-> << >>, ms |-> v, thrown |-> "none"]

AnError(e) == [is |-> "error", text |-> << >>, ms |-> -1, thrown |-> e]

Numbers ==
    { 0, 1, 7, 59, 60, 61, 999, 1000, 1001, 1500, 59999, 60000, 60001, 90000,
      3599999, 3600000, 3600001, 5400000, 14400000,
      4, 5, 279, 280, 16777, 16778, DurationMax - 1, DurationMax }

NumberTexts ==
    { to_string(n) : n \in Numbers }
      \cup { << "0", "0", "7" >>, << "0", "0" >>,
             to_string(DurationMax) \o << "0" >>,
             << "9", "9", "9", "9", "9", "9", "9", "9", "9" >> }

Suffixes ==
    UnitsMs \cup UnitsSec \cup UnitsMin \cup UnitsHour
      \cup { << >>, << "M", "S" >>, << "S", "e", "c" >>, << "H" >>,
             << "M", "i", "n", "s" >>, << "m", "i", "n", "s" >>,
             << "h", "r", "s" >>, << "x" >>, << "s", "5" >>, << " ", "s" >>,
             << "s", " " >>, << ".", "5", "s" >>, << "u", "s" >> }

Texts ==
    { n \o u : n \in NumberTexts, u \in Suffixes }
      \cup { << >>, << "s" >>, << "m", "s" >>, << "-", "5" >>, << "+", "5" >>,
             << " ", "5" >>, << ".", "5" >>, << "x", "5", "s" >> }

InitDurations ==
    /\ cfg \in {c \in Configs : c.onDemand /\ c.testMode /\ c.cycles = 0}
    /\ env = Given(CommandLineOf(cfg), SameSizes)
    /\ LoopAtEntry
    /\ detector = NoDetector /\ options = NoOptions /\ capture = NoCapture
    /\ durations \in {<< AString(s) >> : s \in Texts}
                       \cup {<< AValue(v) >> : v \in Numbers}

\* parseTime(input) on the string last returned or given
CallParseTime ==
    /\ Len(durations) <= MaxCalls
    /\ durations[Len(durations)].is = "string"
    /\ \E r \in {parseTime(durations[Len(durations)].text)} :
          durations' = Append(durations, IF r.thrown = "none" THEN AValue(r.value)
                                         ELSE AnError(r.thrown))
    /\ UNCHANGED << loopVars, detector, options, capture >>

\* formatTime(ms) on the number last returned or given
CallFormatTime ==
    /\ Len(durations) <= MaxCalls
    /\ durations[Len(durations)].is = "value"
    /\ durations' = Append(durations, AString(formatTime(durations[Len(durations)].ms)))
    /\ UNCHANGED << loopVars, detector, options, capture >>

NextDurations == CallParseTime \/ CallFormatTime

SpecDurations == InitDurations /\ [][NextDurations]_vars

(***************************************************************************)
(* Claims about the duration functions, under SpecDurations.               *)
(***************************************************************************)
\* The calls of parseTime and of formatTime made so far: the positions of
\* their arguments in `durations`.
ParseCalls ==
    { i \in 1..(Len(durations) - 1) : durations[i].is = "string" }

FormatCalls ==
    { i \in 1..(Len(durations) - 1) : durations[i].is = "value" }

\* The number of digits a string starts with.
LeadingDigits(text) ==
    CHOOSE k \in 0..Len(text) :
        /\ \A i \in 1..k : IsDigit(text[i])
        /\ k = Len(text) \/ ~IsDigit(text[k + 1])

\* The number a string of digits writes.
RECURSIVE Decimal(_)
Decimal(ds) ==
    IF ds = << >> THEN 0
    ELSE 10 * Decimal(SubSeq(ds, 1, Len(ds) - 1)) + DigitOf(ds[Len(ds)])

\* The number a string starts with, and what follows it.
NumberOf(text) == Decimal(SubSeq(text, 1, LeadingDigits(text)))

SuffixOf(text) == SubSeq(text, LeadingDigits(text) + 1, Len(text))

\* One or more digits, then nothing or a token of `units` in any case.
DigitsThenUnit(text, units) ==
    \E k \in 1..Len(text) :
        /\ \A i \in 1..k : IsDigit(text[i])
        /\ k = Len(text) \/ Lowered(SubSeq(text, k + 1, Len(text))) \in units

\* The tokens the claim lists.
ListedUnits ==
    { << "m", "s" >>, << "s" >>, << "s", "e", "c" >>,
      << "s", "e", "c", "o", "n", "d" >>,
      << "s", "e", "c", "o", "n", "d", "s" >>,
      << "m" >>, << "m", "i", "n" >>, << "m", "i", "n", "u", "t", "e" >>,
      << "m", "i", "n", "u", "t", "e", "s" >>,
      << "h" >>, << "h", "o", "u", "r" >>, << "h", "o", "u", "r", "s" >> }

\* The tokens of the claim and milli, millisecond, milliseconds, secs.
AcceptedUnits ==
    ListedUnits \cup { << "m", "i", "l", "l", "i" >>,
                       << "m", "i", "l", "l", "i", "s", "e", "c", "o", "n", "d" >>,
                       << "m", "i", "l", "l", "i", "s", "e", "c", "o", "n", "d", "s" >>,
                       << "s", "e", "c", "s" >> }

(***************************************************************************)
(* C31: parse(text) succeeds if and only if text is one or more decimal    *)
(* digits optionally followed by one of the unit tokens ms, s, sec,        *)
(* second, seconds, m, min, minute, minutes, h, hour, hours in any case;   *)
(* every other string fails with an invalid-format error and yields no     *)
(* value.  This is the claim as made; the code also accepts milli,         *)
(* millisecond, milliseconds and secs, and fails with an out-of-range      *)
(* error on digits beyond the 64-bit range.                                *)
(***************************************************************************)
C31_ListedUnitsOnly ==
    \A i \in ParseCalls :
        LET text == durations[i].text
            r    == durations[i + 1]
        IN  /\ r.is = "value" <=> DigitsThenUnit(text, ListedUnits)
            /\ r.is # "value" =>
                  r.is = "error" /\ r.thrown = "invalid_argument" /\ r.ms = -1

(***************************************************************************)
(* C31 as amended: parse(text) succeeds if and only if text is one or more *)
(* decimal digits writing a number within the 64-bit unsigned range,       *)
(* optionally followed by one of the unit tokens ms, milli, millisecond,   *)
(* milliseconds, s, sec, secs, second, seconds, m, min, minute, minutes,   *)
(* h, hour, hours in any case.  Every other string fails and yields no     *)
(* value: with an out-of-range error when it starts with digits writing a  *)
(* number beyond the range, else with an invalid-format error.             *)
(***************************************************************************)
C31_AcceptedStrings ==
    \A i \in ParseCalls :
        LET text  == durations[i].text
            r     == durations[i + 1]
            above == LeadingDigits(text) >= 1 /\ NumberOf(text) > DurationMax
        IN  /\ r.is = "value" <=> (DigitsThenUnit(text, AcceptedUnits) /\ ~above)
            /\ r.is = "value" => r.ms \in 0..DurationMax
            /\ r.is # "value" =>
                  /\ r.is = "error" /\ r.ms = -1
                  /\ r.thrown = IF above THEN "out_of_range" ELSE "invalid_argument"

\* "7Sec" parsed to 7000 ms, and elsewhere in the run nothing: the call on
\* a token in capitals, accepted.
C31_Witness ==
    /\ Len(durations) >= 2
    /\ durations[1] = AString(<< "7", "S", "e", "c" >>)
    /\ durations[2] = AValue(7000)

(***************************************************************************)
(* C32: for every accepted input, parse returns the numeric prefix         *)
(* multiplied by the unit's millisecond factor (ms 1, s 1000, m 60000,     *)
(* h 3600000; no unit means milliseconds), and the product is exact: it    *)
(* has not wrapped around in the unsigned 64-bit result.                   *)
(***************************************************************************)
FactorOf(unit) ==
    IF unit \in UnitsSec THEN 1000
    ELSE IF unit \in UnitsMin THEN 60000
    ELSE IF unit \in UnitsHour THEN 3600000
    ELSE 1

C32_ExactProduct ==
    \A i \in ParseCalls :
        LET text == durations[i].text
            r    == durations[i + 1]
            f    == FactorOf(Lowered(SuffixOf(text)))
        IN  r.is = "value" =>
                r.ms % f = 0 /\ r.ms \div f = NumberOf(text)

(***************************************************************************)
(* C33: for every valid duration string s, parse(format(parse(s))) =       *)
(* parse(s).  This is the claim as made; format prints whole units only    *)
(* and drops the rest.                                                     *)
(***************************************************************************)
C33_RoundTrip ==
    (Len(durations) >= 4 /\ durations[1].is = "string") =>
        durations[4].is = "value" /\ durations[4].ms = durations[2].ms

\* The unit formatTime prints a number of milliseconds in, in milliseconds.
FormatUnit(ms) ==
    IF ms < 1000 THEN 1
    ELSE IF ms < 60000 THEN 1000
    ELSE IF ms < 3600000 THEN 60000
    ELSE 3600000

(***************************************************************************)
(* C33 as amended: for every valid duration string s whose value parse(s)  *)
(* is a whole number of the unit format prints it in (milliseconds below   *)
(* 1000, seconds below 60000, minutes below 3600000, else hours),          *)
(* parse(format(parse(s))) = parse(s); for every valid s the string        *)
(* format(parse(s)) is itself valid.                                       *)
(***************************************************************************)
C33_RoundTripOfWholeUnits ==
    (Len(durations) >= 4 /\ durations[1].is = "string") =>
        /\ durations[4].is = "value"
        /\ durations[2].ms % FormatUnit(durations[2].ms) = 0
              => durations[4].ms = durations[2].ms

\* "60s" parsed to 60000, printed as "1m", parsed to 60000 again.
C33_Witness ==
    /\ Len(durations) >= 4
    /\ durations[1] = AString(<< "6", "0", "s" >>)
    /\ durations[2] = AValue(60000)
    /\ durations[3] = AString(<< "1", "m" >>)
    /\ durations[4] = AValue(60000)

(***************************************************************************)
(* C34: format(ms) prints the integer floor(ms / unit) followed by the     *)
(* unit, where the unit is ms if ms < 1000, s if ms < 60000, m if          *)
(* ms < 3600000 and h otherwise.                                           *)
(***************************************************************************)
C34_FloorOfUnit ==
    \A i \in FormatCalls :
        LET ms   == durations[i].ms
            text == durations[i + 1].text
            n    == LeadingDigits(text)
        IN  /\ durations[i + 1].is = "string"
            /\ n >= 1 /\ (n = 1 \/ text[1] # "0")
            /\ SuffixOf(text) = CASE ms < 1000    -> << "m", "s" >>
                                  [] ms \in 1000..59999 -> << "s" >>
                                  [] ms \in 60000..3599999 -> << "m" >>
                                  [] OTHER -> << "h" >>
            /\ NumberOf(text) = CASE ms < 1000    -> ms
                                  [] ms \in 1000..59999 -> ms \div 1000
                                  [] ms \in 60000..3599999 -> ms \div 60000
                                  [] OTHER -> ms \div 3600000

\* 5400000 ms, an hour and a half, printed as "1h".
C34_Witness ==
    /\ Len(durations) >= 2
    /\ durations[1] = AValue(5400000)
    /\ durations[2] = AString(<< "1", "h" >>)

(***************************************************************************)
(* C39: for every number of milliseconds ms, parse(format(ms)) <= ms, with *)
(* equality exactly when ms is a whole multiple of the unit format chose,  *)
(* and a second round gives the same: parse(format(parse(format(ms)))) =   *)
(* parse(format(ms)).                                                      *)
(***************************************************************************)
C39_FormatThenParse ==
    (Len(durations) >= 3 /\ durations[1].is = "value") =>
        LET ms == durations[1].ms
        IN  /\ durations[3].is = "value"
            /\ durations[3].ms <= ms
            /\ durations[3].ms = ms <=> ms % FormatUnit(ms) = 0
            /\ Len(durations) >= 5 => durations[5] = durations[3]

\* 1500 ms printed as "1s", read as 1000 ms, and as 1000 ms again after a
\* second round.
C39_Witness ==
    /\ Len(durations) = 5
    /\ durations[1] = AValue(1500)
    /\ durations[3] = AValue(1000)
    /\ durations[5] = AValue(1000)

(***************************************************************************)
(* parseArgs on the duration flags of the effect schedule                  *)
(* (--min-interval, --max-interval, --effect-duration, --static-duration), *)
(* each with its argument as written on the command line and handed to     *)
(* parseTime; the word of the values is the one of the duration functions. *)
(* The flags of the start delay are modelled by parseArgs above.           *)
(***************************************************************************)
\* A flag and its argument.
FlagDuration(opt, text) == [opt |-> opt, arg |-> text]

\* The fields of a default Config that these flags set (config.h lines
\* 15-18); exited is whether parseArgs has called exit(1).
DefaultDurations ==
    [ minInterval |-> 60000, maxInterval |-> 3600000,
      effectDuration |-> 5000, staticDuration |-> 300, exited |-> FALSE ]

\* One turn of the getopt loop: cases 'm', 'M', 'e', 's' (lines 353-364); an
\* exception of parseTime is caught and exits with 1 (lines 390-393).
CaseDurationFlag(c, f) ==
    LET r == parseTime(f.arg)
    IN  IF r.thrown # "none" THEN [c EXCEPT !.exited = TRUE]
        ELSE CASE f.opt = "min-interval"    -> [c EXCEPT !.minInterval = r.value]
               [] f.opt = "max-interval"    -> [c EXCEPT !.maxInterval = r.value]
               [] f.opt = "effect-duration" -> [c EXCEPT !.effectDuration = r.value]
               [] f.opt = "static-duration" -> [c EXCEPT !.staticDuration = r.value]

\* The getopt loop (lines 330-394); nothing runs after exit(1).
RECURSIVE ParseDurationFlags(_, _)
ParseDurationFlags(c, argv) ==
    IF argv = << >> \/ c.exited THEN c
    ELSE ParseDurationFlags(CaseDurationFlag(c, Head(argv)), Tail(argv))

\* Mutant: the validation without the test of maxInterval.
Validate_MinOnly(c) ==
    LET c1 == IF c.minInterval < 1 THEN [c EXCEPT !.minInterval = 1] ELSE c
        c3 == IF c1.effectDuration < 10 THEN [c1 EXCEPT !.effectDuration = 10] ELSE c1
    IN  IF c3.staticDuration < 10 THEN [c3 EXCEPT !.staticDuration = 10] ELSE c3

\* The validation block (lines 396-400).
Validate(c) ==
    LET c1 == IF c.minInterval < 1 THEN [c EXCEPT !.minInterval = 1] ELSE c
        c2 == IF c1.maxInterval < c1.minInterval
              THEN [c1 EXCEPT !.maxInterval = c1.minInterval] ELSE c1
        c3 == IF c2.effectDuration < 10 THEN [c2 EXCEPT !.effectDuration = 10] ELSE c2
    IN  IF c3.staticDuration < 10 THEN [c3 EXCEPT !.staticDuration = 10] ELSE c3

\* The durations of the Config parseArgs returns, unless it has exited.
parseArgsDurations(argv) ==
    LET c == ParseDurationFlags(DefaultDurations, argv)
    IN  IF c.exited THEN c ELSE Validate(c)

\* std::uniform_int_distribution<uint64_t> dist(minMs, maxMs) (line 416):
\* the range the draw is made from.
SamplingRange(c) == c.minInterval..c.maxInterval

(***************************************************************************)
(* parseArgs called on every command line of at most MaxDurationFlags      *)
(* duration flags, in every order, with arguments below, at and above the  *)
(* limits of the validation, with the same flag given twice, and with      *)
(* arguments parseTime rejects.  The main loop stays at the start of       *)
(* main().                                                                 *)
(***************************************************************************)
MaxDurationFlags == 2

DurationArgs ==
    { << "0" >>, << "1" >>, << "9" >>, << "1", "0" >>, << "5", "s" >>,
      << "2", "m" >>, << "4", "h" >>, << "5", "h" >>, to_string(DurationMax),
      << "s" >> }

DurationFlags ==
    { FlagDuration(o, a) : o \in {"min-interval", "max-interval"}, a \in DurationArgs }
      \cup { FlagDuration(o, a) : o \in {"effect-duration", "static-duration"},
                                  a \in {<< "9" >>, << "1", "0" >>} }

DurationCommandLines == UNION { [1..n -> DurationFlags] : n \in 0..MaxDurationFlags }

NotParsed(argv) == [argv |-> argv, parsed |-> FALSE]

Parsed(argv, c) == [argv |-> argv, parsed |-> TRUE, config |-> c]

InitOptions ==
    /\ cfg \in {c \in Configs : c.onDemand /\ c.testMode /\ c.cycles = 0}
    /\ env = Given(CommandLineOf(cfg), SameSizes)
    /\ LoopAtEntry
    /\ detector = NoDetector /\ durations = NoDurations /\ capture = NoCapture
    /\ options \in {NotParsed(a) : a \in DurationCommandLines}

\* Config config = parseArgs(argc, argv) (line 438)
CallParseArgs ==
    /\ ~options.parsed
    /\ options' = Parsed(options.argv, parseArgsDurations(options.argv))
    /\ UNCHANGED << loopVars, detector, durations, capture >>

NextOptions == CallParseArgs

SpecOptions == InitOptions /\ [][NextOptions]_vars

(***************************************************************************)
(* C35: after configuration parsing, for any supplied flag values in any   *)
(* order, 1 <= minInterval <= maxInterval, so the range the sequencer      *)
(* samples its intervals from is valid and not empty.                      *)
(***************************************************************************)
C35_IntervalsValid ==
    (options.parsed /\ ~options.config.exited) =>
        /\ 1 <= options.config.minInterval
        /\ options.config.minInterval <= options.config.maxInterval
        /\ options.config.maxInterval <= DurationMax
        /\ \E draw \in SamplingRange(options.config) : TRUE

\* `--max-interval 0 --min-interval 0` parsed: the minimum is raised to 1
\* and the maximum, then below it, to the minimum.
C35_Witness ==
    /\ options.parsed
    /\ options.argv = << FlagDuration("max-interval", << "0" >>),
                         FlagDuration("min-interval", << "0" >>) >>
    /\ ~options.config.exited
    /\ options.config.minInterval = 1
    /\ options.config.maxInterval = 1

(***************************************************************************)
(* CameraCapture::queryResolutions and setResolution (camera_capture.cpp,  *)
(* src/unnamed/part_004; ResolutionMode in camera_capture.h).  A mode is a *)
(* pair << width, height >>.  A capture device is whether it can be opened *)
(* and its pixel formats in the order VIDIOC_ENUM_FMT gives them, each the *)
(* frame sizes VIDIOC_ENUM_FRAMESIZES gives for it in order: a discrete    *)
(* mode, or a range (stepwise or continuous).                              *)
(***************************************************************************)
\* ResolutionMode::operator< (camera_capture.h lines 38-40)
ModeLess(a, b) == a[1] * a[2] < b[1] * b[2]

\* std::set<ResolutionMode>::insert: the set is kept in the order of
\* operator<, and a mode is left out when the set holds one that is neither
\* less nor greater.
SetInsert(set, m) ==
    IF \E i \in 1..Len(set) : ~ModeLess(set[i], m) /\ ~ModeLess(m, set[i])
    THEN set
    ELSE LET k == Cardinality({i \in 1..Len(set) : ModeLess(set[i], m)})
         IN  SubSeq(set, 1, k) \o << m >> \o SubSeq(set, k + 1, Len(set))

\* int common[][2] (lines 41-44)
CommonSizes ==
    << << 640, 480 >>, << 800, 600 >>, << 1024, 768 >>, << 1280, 720 >>,
       << 1280, 960 >>, << 1920, 1080 >>, << 2560, 1440 >>, << 3840, 2160 >> >>

Discrete(m) ==
    [type |-> "discrete", mode |-> m, min |-> << 0, 0 >>, max |-> << 0, 0 >>]

Stepwise(min, max) ==
    [type |-> "stepwise", mode |-> << 0, 0 >>, min |-> min, max |-> max]

\* The test of lines 46-49
InRange(res, e) ==
    /\ res[1] >= e.min[1] /\ res[1] <= e.max[1]
    /\ res[2] >= e.min[2] /\ res[2] <= e.max[2]

\* for (auto& res : common), lines 45-52, from the i-th common size
RECURSIVE InsertCommon(_, _, _)
InsertCommon(set, e, i) ==
    IF i > Len(CommonSizes) THEN set
    ELSE InsertCommon(IF InRange(CommonSizes[i], e)
                      THEN SetInsert(set, CommonSizes[i]) ELSE set, e, i + 1)

\* The inner loop (lines 32-56) over the frame sizes of one format, from
\* frmsize.index = index - 1; a range ends it (break, line 53).
RECURSIVE EnumFrameSizes(_, _, _)
EnumFrameSizes(set, sizes, index) ==
    IF index > Len(sizes) THEN set
    ELSE IF sizes[index].type = "discrete"
         THEN EnumFrameSizes(SetInsert(set, sizes[index].mode), sizes, index + 1)
         ELSE InsertCommon(set, sizes[index], 1)

\* The outer loop (lines 27-58) over the formats
RECURSIVE EnumFormats(_, _)
EnumFormats(set, formats) ==
    IF formats = << >> THEN set
    ELSE EnumFormats(EnumFrameSizes(set, Head(formats), 1), Tail(formats))

\* std::sort(result.begin(), result.end()) (line 64), by insertion
RECURSIVE SortModes(_)
SortModes(v) ==
    IF v = << >> THEN << >>
    ELSE LET rest == SortModes(Tail(v))
             k == Cardinality({i \in 1..Len(rest) : ModeLess(rest[i], Head(v))})
         IN  SubSeq(rest, 1, k) \o << Head(v) >> \o SubSeq(rest, k + 1, Len(rest))

\* queryResolutions (lines 15-66)
queryResolutions(dev) ==
    IF ~dev.opens THEN << >>
    ELSE SortModes(EnumFormats(<< >>, dev.formats))

\* The choice of setResolution (lines 69-102) among the modes of the device:
\* whether it found any (its return value, line 73 or 119), and the mode it
\* asks the device for.
setResolution(dev, resPref) ==
    LET resolutions == queryResolutions(dev)
        count == Len(resolutions)
    IN  IF resolutions = << >>
        THEN [ok |-> FALSE, selected |-> << 0, 0 >>]
        ELSE [ok |-> TRUE,
              selected |->
                 CASE resPref = "LOW"    -> resolutions[1]
                   [] resPref = "HIGH"   -> resolutions[count]
                   [] resPref = "MEDIUM" ->
                        IF count <= 2 THEN resolutions[count]
                        ELSE resolutions[((count + 1) \div 2 - 1) + 1]]

(***************************************************************************)
(* The two functions called once each on a device: devices with one format *)
(* of up to MaxModes discrete modes, two of them of the same pixel count   *)
(* (640x360 and 480x480), devices with a range, and devices with a second  *)
(* format.  The main loop stays at the start of main().                    *)
(***************************************************************************)
MaxModes == 3

DiscreteModes ==
    { << 640, 360 >>, << 480, 480 >>, << 640, 480 >>, << 1280, 720 >> }

Ranges ==
    { Stepwise(<< 160, 120 >>, << 1280, 720 >>),
      Stepwise(<< 160, 120 >>, << 1280, 960 >>),
      Stepwise(<< 160, 120 >>, << 3840, 2160 >>) }

Formats ==
    UNION { [1..n -> {Discrete(m) : m \in DiscreteModes}] : n \in 0..MaxModes }
      \cup { << r >> : r \in Ranges }

CaptureDevices ==
    { [opens |-> o, formats |-> << f >>] : o \in BOOLEAN, f \in Formats }
      \cup { [opens |-> TRUE, formats |-> << f, g >>] :
                f \in Formats,
                g \in { << Discrete(<< 640, 360 >>) >>,
                        << Discrete(<< 1920, 1080 >>), Discrete(<< 640, 480 >>) >>,
                        << Stepwise(<< 160, 120 >>, << 1280, 720 >>) >> } }
      \cup { [opens |-> TRUE, formats |-> << >>] }

Resolutions == {"LOW", "MEDIUM", "HIGH"}

NotCalled == [called |-> FALSE]

OnDevice(dev, resPref) ==
    [device |-> dev, resPref |-> resPref, asked |-> TRUE,
     query |-> NotCalled, set |-> NotCalled]

InitCapture ==
    /\ cfg \in {c \in Configs : c.onDemand /\ c.testMode /\ c.cycles = 0}
    /\ env = Given(CommandLineOf(cfg), SameSizes)
    /\ LoopAtEntry
    /\ detector = NoDetector /\ durations = NoDurations /\ options = NoOptions
    /\ capture \in {OnDevice(d, p) : d \in CaptureDevices, p \in Resolutions}

\* CameraCapture::queryResolutions(device)
CallQueryResolutions ==
    /\ capture.asked /\ ~capture.query.called
    /\ capture' = [capture EXCEPT !.query =
                      [called |-> TRUE, modes |-> queryResolutions(capture.device)]]
    /\ UNCHANGED << loopVars, detector, durations, options >>

\* setResolution(resPref), from CameraCapture::open
CallSetResolution ==
    /\ capture.asked /\ ~capture.set.called
    /\ \E r \in {setResolution(capture.device, capture.resPref)} :
          capture' = [capture EXCEPT !.set =
                         [called |-> TRUE, ok |-> r.ok, selected |-> r.selected]]
    /\ UNCHANGED << loopVars, detector, durations, options >>

NextCapture == CallQueryResolutions \/ CallSetResolution

SpecCapture == InitCapture /\ [][NextCapture]_vars

(***************************************************************************)
(* C36: over the list of the enumerated modes in ascending order, LOW      *)
(* selects the first (smallest) mode, HIGH the last (largest), and MEDIUM  *)
(* the last when there are one or two modes and otherwise the mode at      *)
(* index (count - 1) / 2 rounded up (indices from 0).                      *)
(***************************************************************************)
C36_SelectedMode ==
    (capture.asked /\ capture.set.called /\ capture.set.ok) =>
        LET modes == queryResolutions(capture.device)
            count == Len(modes)
            \* (count - 1) / 2 rounded up
            middle == ((count - 1) + 1) \div 2
        IN  capture.set.selected =
               CASE capture.resPref = "LOW"    -> modes[1]
                 [] capture.resPref = "HIGH"   -> modes[count]
                 [] capture.resPref = "MEDIUM" ->
                      IF count <= 2 THEN modes[count] ELSE modes[middle + 1]

(***************************************************************************)
(* C40: queryResolutions returns every distinct (width, height) mode the   *)
(* device enumerates exactly once, in ascending order of pixel count; two  *)
(* distinct modes of the same pixel count both appear in the result.       *)
(***************************************************************************)
\* The modes a device enumerates: its discrete modes, and the common sizes
\* within its ranges.
Enumerated(dev) ==
    IF ~dev.opens THEN {}
    ELSE UNION { UNION { IF f[i].type = "discrete" THEN {f[i].mode}
                         ELSE {CommonSizes[j] : j \in {j \in 1..Len(CommonSizes) :
                                                        InRange(CommonSizes[j], f[i])}} :
                         i \in 1..Len(f) } :
                 f \in {dev.formats[n] : n \in 1..Len(dev.formats)} }

C40_EveryModeOnce ==
    (capture.asked /\ capture.query.called) =>
        LET modes == capture.query.modes
        IN  /\ \A m \in Enumerated(capture.device) :
                  Cardinality({i \in 1..Len(modes) : modes[i] = m}) = 1
            /\ \A i \in 1..Len(modes) : modes[i] \in Enumerated(capture.device)
            /\ \A i, j \in 1..Len(modes) :
                  i < j => modes[i][1] * modes[i][2] <= modes[j][1] * modes[j][2]

(***************************************************************************)
(* C37: cycleCount never decreases; it increases by exactly one on each    *)
(* Substitute -> Passthrough transition (the step of the sequencer that    *)
(* ends a Substitute, not the reset at a disconnect) and at no other time; *)
(* it never exceeds cycles when cycles > 0; and at every tick boundary     *)
(* effectsFinished holds if and only if cycles > 0 and cycleCount >=       *)
(* cycles.                                                                 *)
(***************************************************************************)
\* The step is an iteration in which the sequencer ended a Substitute.
SubstituteEnds ==
    /\ effectState = "MATRIX" /\ effectState' = "PASSTHROUGH"
    /\ tick'.effStart = "MATRIX" /\ tick'.capture = "ok"

C37_CycleCount ==
    /\ [](cfg.cycles > 0 => cycleCount <= cfg.cycles)
    /\ [](effectsFinished <=> (cfg.cycles > 0 /\ cycleCount >= cfg.cycles))
    /\ [][ /\ cycleCount' >= cycleCount
           /\ SubstituteEnds => cycleCount' = cycleCount + 1
           /\ ~SubstituteEnds => cycleCount' = cycleCount ]_vars

(***************************************************************************)
(* C38: whenever the camera is Active, the filler and substitute renderers *)
(* are initialized to the width and height of the camera that is open,     *)
(* after any sequence of sessions in which successive opens of the camera  *)
(* settle on different sizes.                                              *)
(***************************************************************************)
C38_EffectsAtCameraSize ==
    (pc = "loop" /\ cameraState = "ACTIVE" /\ cameraOpen) =>
        video.effects = video.local

=============================================================================
